---- MODULE Spec2Model ----
(***************************************************************************)
(* Content-based image retrieval: the distance metrics of src/distance.cpp *)
(* and the feature extractors of src/features.cpp, the CSV reader of       *)
(* src/utils.cpp, and the programs main_query, main_extract_features and   *)
(* gui_query that use them.                                                *)
(*                                                                         *)
(* Numbers.  A C++ float is modelled in fixed point: the integer x stands  *)
(* for the float x / One, so One is 1.0f and -One is the error return      *)
(* -1.0f.  Sums and differences are exact, a product of two floats is      *)
(* rounded down to the next multiple of 1/One (FMul).  The operands of     *)
(* distanceCosine are counted in a finer quantum of 1e-11, so that vectors *)
(* on both sides of its 1e-10 norm threshold exist; its result is a ratio  *)
(* and comes back in the fixed point of every other distance.              *)
(***************************************************************************)
EXTENDS Integers, Sequences, FiniteSets, TLC

\* ------------------------------------------------------------- bounds
\* Fixed-point scale: the integer One stands for the float 1.0f.
One == 100
\* Longest feature vector handed to a distance function, apart from the
\* fixed 209 / 512 layouts of the custom metric.
MaxLen == 4
\* Largest segment count handed to distanceMultiHistogram.
MaxHist == 3
\* Largest number of rows and of columns of an image.
MaxDim == 8
\* Largest number of rows of an image handed to a histogram extractor.
MaxRows == 5
\* Largest number of records of a feature database.
MaxDb == 3
\* Largest number of image files of a directory handed to the extraction program.
MaxFiles == 3
\* Largest number of lines of a CSV file handed to readFeaturesFromCSV.
MaxLines == 2
\* Longest text typed into the search box of the GUI.
MaxText == 1

\* ------------------------------------------------------------- state
VARIABLES
    pc,             \* "idle" before the call, "returned" after it, "fault" when the call trapped
    fn,             \* name of the function that was called
    feature1,       \* first operand of the distance call
    feature2,       \* second operand of the distance call
    dnnFeature1,    \* embedding of the first operand (custom metric only)
    dnnFeature2,    \* embedding of the second operand (custom metric only)
    numHistograms,  \* distanceMultiHistogram: declared segment count
    weights,        \* distanceMultiHistogram: weight list
    colorSize,      \* distanceTextureColor: length of the colour slice
    textureSize,    \* distanceTextureColor: length of the texture slice
    colorWeight,    \* distanceTextureColor: weight of the colour distance
    textureWeight,  \* distanceTextureColor: weight of the texture distance
    ret,            \* value returned by the call
    ops,            \* element-wise arithmetic steps (loop iterations) the call executed
    sub,            \* calls of distanceHistogramIntersection made by a composite metric
    src,            \* image handed to an extractor
    feature,        \* output vector of the extractor
    result,         \* int returned by the extractor (0 success, -1 error)
    pixelReads,     \* extractBaselineFeature: the (row, column) positions it read
    binsPerChannel, \* histogram extractors: bins per chromaticity channel
    histogram,      \* extractRGChromaticityHistogram: bin counts before normalisation
    totalPixels,    \* extractRGChromaticityHistogram: number of counted pixels
    regions,        \* region extractors: the cv::Rect row ranges they cut the image into
    featureType,    \* query: feature type named on the command line
    targetFeature,  \* query: feature vector of the target image
    targetDNNFeature, \* query: embedding of the target image (custom mode)
    database,       \* query: records read from the feature CSV
    dnnDatabase,    \* query: records read from the embedding CSV (custom mode)
    idx,            \* query: loop index i of the ranking loop
    results,        \* query: the MatchResult list
    filenames,      \* extraction: what cv::imread gives for each file of the directory, in order
    allFeatures,    \* extraction: the FeatureData records collected so far
    successCount,   \* extraction: images extracted
    failCount,      \* extraction: images that failed to load or to extract
    fileIdx,        \* extraction: loop index i of the batch loop
    csvFile,        \* readFeaturesFromCSV: the file, whether it opens and its lines of characters
    features,       \* readFeaturesFromCSV: the output vector of FeatureData records
    dst,            \* sobelX3x3, sobelY3x3: the output image of signed values
    targetImagePath, \* query: the target path of the command line, as character codes
    targetFilename, \* query: the part of the target path after its last separator
    allImages,      \* GUI: the filenames of the image directory, as character codes
    databases,      \* GUI: the feature types (trackbar indices) that have a database
    currentTarget,  \* GUI: filename of the target image
    browserPage,    \* GUI: page of the browser strip
    maxPages,       \* GUI: number of pages of the browser strip
    searchActive,   \* GUI: AppState::searchActive
    searchText,     \* GUI: AppState::searchText, as character codes
    searchResults,  \* GUI: AppState::searchResults
    featureIdx,     \* GUI: AppState::featureIdx
    clickRegions,   \* GUI: AppState::regions, the filename of each clickable region
    clicked,        \* GUI: AppState::clicked
    clickedFile,    \* GUI: AppState::clickedFile
    key             \* GUI: what cv::waitKey returned in the last pass of the loop

distVars == <<feature1, feature2, dnnFeature1, dnnFeature2, numHistograms, weights,
              colorSize, textureSize, colorWeight, textureWeight, sub>>
imgVars == <<src, feature, result, pixelReads>>
histVars == <<binsPerChannel, histogram, totalPixels, regions>>
queryVars == <<featureType, targetFeature, targetDNNFeature, database, dnnDatabase,
               idx, results>>
batchVars == <<filenames, allFeatures, successCount, failCount, fileIdx>>
csvVars == <<csvFile, features>>
pathVars == <<targetImagePath, targetFilename>>
guiVars == <<allImages, databases, currentTarget, browserPage, maxPages, searchActive,
             searchText, searchResults, featureIdx, clickRegions, clicked, clickedFile, key>>
moreVars == <<csvVars, dst, pathVars, guiVars>>
extVars == <<batchVars, moreVars>>
vars == <<pc, fn, ret, ops, distVars, imgVars, histVars, queryVars, extVars>>

\* ------------------------------------------------------------- floats
\* return -1.0f
ERR == -One
Half == One \div 2
\* Mutant: the bin of the first operand instead of the smaller bin.
Min_First(a, b) == a
Min(a, b) == IF a < b THEN a ELSE b
Abs(a) == IF a < 0 THEN -a ELSE a
\* float * float, rounded down to the fixed-point grid
FMul(a, b) == (a * b) \div One
\* The outcome of one call: the value returned, the arithmetic steps done,
\* the histogram-intersection calls made, and whether the call trapped.
Out(r, o, s) == [ret |-> r, ops |-> o, sub |-> s, fault |-> FALSE]

\* a[from+1 .. to] : std::vector<float>(v.begin() + from, v.begin() + to)
Slice(v, from, to) == [i \in 1..(to - from) |-> v[from + i]]

\* ------------------------------------------------------------- distanceSSD
\* sum += diff * diff, for the elements lo .. hi in index order (the range
\* is summed as its lower half followed by its upper half, which keeps the
\* order of the terms and the nesting of the evaluation shallow)
RECURSIVE SumSqDiff(_, _, _, _)
SumSqDiff(f1, f2, lo, hi) ==
    IF lo > hi THEN 0
    ELSE IF lo = hi THEN FMul(f1[lo] - f2[lo], f1[lo] - f2[lo])
    ELSE SumSqDiff(f1, f2, lo, (lo + hi) \div 2)
            + SumSqDiff(f1, f2, (lo + hi) \div 2 + 1, hi)

\* Mutant: the emptiness check is missing.
distanceSSD_NoEmptyCheck(f1, f2) ==
    IF Len(f1) # Len(f2) THEN Out(ERR, 0, 0)
    ELSE Out(SumSqDiff(f1, f2, 1, Len(f1)), Len(f1), 0)

distanceSSD(f1, f2) ==
    IF Len(f1) # Len(f2) THEN Out(ERR, 0, 0)
    ELSE IF Len(f1) = 0 THEN Out(ERR, 0, 0)
    ELSE Out(SumSqDiff(f1, f2, 1, Len(f1)), Len(f1), 0)

\* ------------------------------------------------------------- distanceHistogramIntersection
\* intersection += std::min(feature1[i], feature2[i]), for i = lo .. hi
RECURSIVE SumMin(_, _, _, _)
SumMin(f1, f2, lo, hi) ==
    IF lo > hi THEN 0
    ELSE IF lo = hi THEN Min(f1[lo], f2[lo])
    ELSE SumMin(f1, f2, lo, (lo + hi) \div 2)
            + SumMin(f1, f2, (lo + hi) \div 2 + 1, hi)

\* Mutant: the intersection itself is returned, not 1 - intersection.
distanceHistogramIntersection_Similarity(f1, f2) ==
    IF Len(f1) # Len(f2) THEN Out(ERR, 0, 0)
    ELSE IF Len(f1) = 0 THEN Out(ERR, 0, 0)
    ELSE Out(SumMin(f1, f2, 1, Len(f1)), Len(f1), 0)

distanceHistogramIntersection(f1, f2) ==
    IF Len(f1) # Len(f2) THEN Out(ERR, 0, 0)
    ELSE IF Len(f1) = 0 THEN Out(ERR, 0, 0)
    ELSE Out(One - SumMin(f1, f2, 1, Len(f1)), Len(f1), 0)

\* ------------------------------------------------------------- distanceMultiHistogram
\* The loop over the segments h = 0 .. numHistograms-1, after its first h
\* iterations: the running total, and failed once a segment distance came
\* back negative (the loop returns at once).
RECURSIVE MultiLoop(_, _, _, _, _)
MultiLoop(f1, f2, w, histogramSize, h) ==
    IF h = 0 THEN [total |-> 0, ops |-> 0, sub |-> 0, failed |-> FALSE]
    ELSE LET prev == MultiLoop(f1, f2, w, histogramSize, h - 1)
             startIdx == (h - 1) * histogramSize
             endIdx == startIdx + histogramSize
             dist == distanceHistogramIntersection(Slice(f1, startIdx, endIdx),
                                                   Slice(f2, startIdx, endIdx))
         IN  IF prev.failed THEN prev
             ELSE IF dist.ret < 0
                  THEN [total |-> prev.total, ops |-> prev.ops + dist.ops,
                        sub |-> prev.sub + 1, failed |-> TRUE]
                  ELSE [total |-> prev.total + FMul(w[h], dist.ret),
                        ops |-> prev.ops + dist.ops,
                        sub |-> prev.sub + 1, failed |-> FALSE]

\* weights.size() != static_cast<size_t>(numHistograms): a negative count
\* converts to a size no vector has.
WeightCountMismatch(w, n) == n < 0 \/ Len(w) # n

\* Mutant: the divisibility check is missing.
NotDivisible_Never(size, n) == FALSE

\* feature1.size() % numHistograms != 0
NotDivisible(size, n) == size % n # 0

\* weightSum += w, for every weight
RECURSIVE WeightSum(_, _)
WeightSum(w, i) == IF i = 0 THEN 0 ELSE WeightSum(w, i - 1) + w[i]

\* Mutant: a weight sum away from 1 is rejected.
WeightSumRejects_Fatal(weightSum) == Abs(weightSum - One) > One \div 1000

\* if (std::abs(weightSum - 1.0f) > 0.001f) { std::cerr << "Warning: ..." }
\* The branch prints and falls through: whatever the sum, the call goes on.
WeightSumRejects(weightSum) == FALSE

\* With numHistograms = 0 and no weights the count check passes and
\* feature1.size() / numHistograms divides by zero: the outcome is marked fault.
distanceMultiHistogram(f1, f2, n, w) ==
    IF Len(f1) # Len(f2) THEN Out(ERR, 0, 0)
    ELSE IF Len(f1) = 0 THEN Out(ERR, 0, 0)
    ELSE IF WeightCountMismatch(w, n) THEN Out(ERR, 0, 0)
    ELSE IF WeightSumRejects(WeightSum(w, Len(w))) THEN Out(ERR, 0, 0)
    ELSE IF n = 0 THEN [ret |-> ERR, ops |-> 0, sub |-> 0, fault |-> TRUE]
    ELSE IF NotDivisible(Len(f1), n) THEN Out(ERR, 0, 0)
    ELSE LET loop == MultiLoop(f1, f2, w, Len(f1) \div n, n)
         IN  IF loop.failed THEN Out(ERR, loop.ops, loop.sub)
             ELSE Out(loop.total, loop.ops, loop.sub)

\* ------------------------------------------------------------- distanceTextureColor
distanceTextureColor(f1, f2, cSize, tSize, cWeight, tWeight) ==
    LET expectedSize == cSize + tSize
        color1 == Slice(f1, 0, cSize)
        color2 == Slice(f2, 0, cSize)
        texture1 == Slice(f1, cSize, Len(f1))
        texture2 == Slice(f2, cSize, Len(f2))
        colorDist == distanceHistogramIntersection(color1, color2)
        textureDist == distanceHistogramIntersection(texture1, texture2)
    IN  IF Len(f1) # expectedSize \/ Len(f2) # expectedSize THEN Out(ERR, 0, 0)
        ELSE IF WeightSumRejects(cWeight + tWeight) THEN Out(ERR, 0, 0)
        ELSE IF colorDist.ret < 0 THEN Out(ERR, colorDist.ops, 1)
        ELSE IF textureDist.ret < 0 THEN Out(ERR, colorDist.ops + textureDist.ops, 2)
        ELSE Out(FMul(cWeight, colorDist.ret) + FMul(tWeight, textureDist.ret),
                 colorDist.ops + textureDist.ops, 2)

\* ------------------------------------------------------------- distanceCosine
\* 1e-10f, counted in the 1e-11 quantum of the operands of distanceCosine
NormEps == 10

\* dotProduct += feature1[i] * feature2[i], for i = lo .. hi  (also the
\* squared norms, with f1 = f2)
RECURSIVE DotProduct(_, _, _, _)
DotProduct(f1, f2, lo, hi) ==
    IF lo > hi THEN 0
    ELSE IF lo = hi THEN f1[lo] * f2[lo]
    ELSE DotProduct(f1, f2, lo, (lo + hi) \div 2)
            + DotProduct(f1, f2, (lo + hi) \div 2 + 1, hi)

\* Mutant: only an exactly zero norm is caught.
NearZeroNorm_ExactZero(normSq) == normSq = 0

\* norm < 1e-10f, for norm = sqrt(normSq)
NearZeroNorm(normSq) == normSq < NormEps * NormEps

\* Mutant: a near-zero norm is reported as an error.
ZeroNormResult_Error == ERR

\* return 1.0f;  // Maximum distance
ZeroNormResult == One

\* |dotProduct| / (sqrt(norm1Sq) * sqrt(norm2Sq)) as a float, rounded down
QuotByNorms(absDot, norm1Sq, norm2Sq) ==
    CHOOSE c \in 0..(One + 1) :
        /\ c * c * norm1Sq * norm2Sq <= One * One * absDot * absDot
        /\ (c + 1) * (c + 1) * norm1Sq * norm2Sq > One * One * absDot * absDot

distanceCosine(f1, f2) ==
    IF Len(f1) # Len(f2) THEN Out(ERR, 0, 0)
    ELSE IF Len(f1) = 0 THEN Out(ERR, 0, 0)
    ELSE LET n == Len(f1)
             dotProduct == DotProduct(f1, f2, 1, n)
             norm1Sq == DotProduct(f1, f1, 1, n)
             norm2Sq == DotProduct(f2, f2, 1, n)
             quot == QuotByNorms(Abs(dotProduct), norm1Sq, norm2Sq)
             cosineSimilarity == IF dotProduct < 0 THEN -quot ELSE quot
             clamped == IF cosineSimilarity > One THEN One
                        ELSE IF cosineSimilarity < -One THEN -One
                        ELSE cosineSimilarity
         IN  IF NearZeroNorm(norm1Sq) \/ NearZeroNorm(norm2Sq)
             THEN Out(ZeroNormResult, 2 * n, 0)
             ELSE Out(One - clamped, 2 * n + 1, 0)

\* ------------------------------------------------------------- distanceCustomBlueScene
CustomLen == 209
DnnLen == 512
TextureEnd == 17
\* 0.4f, 0.2f, 0.33f, 0.34f
Hundredths(k) == (k * One) \div 100
spatialWeights == <<Hundredths(33), Hundredths(34), Hundredths(33)>>

distanceCustomBlueScene(c1, c2, d1, d2) ==
    LET blueDist == Abs(c1[1] - c2[1])
        textureDist == distanceHistogramIntersection(Slice(c1, 1, TextureEnd),
                                                     Slice(c2, 1, TextureEnd))
        spatialDist == distanceMultiHistogram(Slice(c1, TextureEnd, Len(c1)),
                                              Slice(c2, TextureEnd, Len(c2)),
                                              3, spatialWeights)
        dnnDist == distanceCosine(d1, d2)
    IN  IF Len(c1) # CustomLen \/ Len(c2) # CustomLen THEN Out(ERR, 0, 0)
        ELSE IF Len(d1) # DnnLen \/ Len(d2) # DnnLen THEN Out(ERR, 0, 0)
        ELSE IF textureDist.ret < 0 THEN Out(ERR, 1 + textureDist.ops, 1)
        ELSE IF spatialDist.ret < 0
             THEN Out(ERR, 1 + textureDist.ops + spatialDist.ops, 1 + spatialDist.sub)
        ELSE IF dnnDist.ret < 0
             THEN Out(ERR, 1 + textureDist.ops + spatialDist.ops + dnnDist.ops,
                      1 + spatialDist.sub)
        ELSE Out(FMul(Hundredths(40), blueDist) + FMul(Hundredths(20), textureDist.ret)
                 + FMul(Hundredths(20), spatialDist.ret) + FMul(Hundredths(20), dnnDist.ret),
                 1 + textureDist.ops + spatialDist.ops + dnnDist.ops,
                 1 + spatialDist.sub)

\* ------------------------------------------------------------- extractBaselineFeature
\* static_cast<float>(unsigned char)
ToFloat(byte) == byte * One

\* src.empty()
Empty(img) == img.rows = 0 \/ img.cols = 0

\* Mutant: the channels are pushed in reverse stored order.
RECURSIVE PatchRow_Reversed(_, _, _, _)
PatchRow_Reversed(img, row, startCol, n) ==
    IF n = 0 THEN <<>>
    ELSE LET pixel == img.data[row][startCol + n - 1]
         IN  PatchRow_Reversed(img, row, startCol, n - 1)
                \o <<ToFloat(pixel[3]), ToFloat(pixel[2]), ToFloat(pixel[1])>>

\* The inner loop: the pixels of one row from column startCol on, the first
\* n of them, each pushing its three channels in stored order.
RECURSIVE PatchRow(_, _, _, _)
PatchRow(img, row, startCol, n) ==
    IF n = 0 THEN <<>>
    ELSE LET pixel == img.data[row][startCol + n - 1]
         IN  PatchRow(img, row, startCol, n - 1)
                \o <<ToFloat(pixel[1]), ToFloat(pixel[2]), ToFloat(pixel[3])>>

\* The outer loop: the first m rows from startRow on, columns startCol .. endCol.
RECURSIVE Patch(_, _, _, _, _)
Patch(img, startRow, startCol, endCol, m) ==
    IF m = 0 THEN <<>>
    ELSE Patch(img, startRow, startCol, endCol, m - 1)
            \o PatchRow(img, startRow + m - 1, startCol, endCol - startCol + 1)

\* Mutant: any image of three or more channels is accepted.
WrongChannels_Fewer(img) == img.channels < 3

\* src.channels() != 3
WrongChannels(img) == img.channels # 3

\* Mutant: the centre of an even dimension is the lower of its two middle positions.
Centre_Lower(size) == (size - 1) \div 2

\* int centerRow = src.rows / 2; int centerCol = src.cols / 2;
Centre(size) == size \div 2

\* The positions rowPtr[col] of the two loops, row = startRow .. endRow and
\* col = startCol .. endCol, for an image that passed the three checks.
BaselineReads(img) ==
    IF Empty(img) \/ img.rows < 7 \/ img.cols < 7 \/ WrongChannels(img) THEN {}
    ELSE {<<row, col>> : row \in (Centre(img.rows) - 3)..(Centre(img.rows) + 3),
                         col \in (Centre(img.cols) - 3)..(Centre(img.cols) + 3)}

extractBaselineFeature(img) ==
    IF Empty(img) THEN [result |-> -1, feature |-> <<>>]
    ELSE IF img.rows < 7 \/ img.cols < 7 THEN [result |-> -1, feature |-> <<>>]
    ELSE IF WrongChannels(img) THEN [result |-> -1, feature |-> <<>>]
    ELSE LET centerRow == Centre(img.rows)
             centerCol == Centre(img.cols)
             startRow == centerRow - 3
             endRow == centerRow + 3
             startCol == centerCol - 3
             endCol == centerCol + 3
             f == Patch(img, startRow, startCol, endCol, endRow - startRow + 1)
         IN  IF Len(f) # 147 THEN [result |-> -1, feature |-> f]
             ELSE [result |-> 0, feature |-> f]

\* ------------------------------------------------------------- single precision
\* The bin of a chromaticity is decided by two float operations, r / sum
\* and r_chrom * binsPerChannel, each rounded to the 24-bit significand of a
\* float (round to nearest, ties to even), and a truncating cast to int.  A
\* float is held here as [m, e]: the value m * 2^-e with 2^23 <= m <= 2^24,
\* or m = 0.
RECURSIVE Pow2(_)
Pow2(k) == IF k = 0 THEN 1 ELSE 2 * Pow2(k - 1)

\* Round to nearest, ties to even: the significand q goes up by one when the
\* part cut off, rem out of unit, is more than a half, or is a half and q is odd.
F32Round(q, rem, unit, e) ==
    [m |-> IF 2 * rem > unit \/ (2 * rem = unit /\ q % 2 = 1) THEN q + 1 ELSE q,
     e |-> e]

\* Long division a / b, one quotient bit per step, until the quotient q has
\* 24 significant bits; the remainder rem then decides the rounding.
RECURSIVE F32DivBits(_, _, _, _)
F32DivBits(q, rem, e, b) ==
    IF q >= Pow2(23) THEN F32Round(q, rem, b, e)
    ELSE IF 2 * rem >= b THEN F32DivBits(2 * q + 1, 2 * rem - b, e + 1, b)
    ELSE F32DivBits(2 * q, 2 * rem, e + 1, b)

\* float(a) / float(b) for integers 0 <= a <= b, 0 < b
F32Div(a, b) ==
    IF a = 0 THEN [m |-> 0, e |-> 0] ELSE F32DivBits(a \div b, a % b, 0, b)

\* The number of low bits a product p loses to fit 24 bits.
RECURSIVE ExcessBits(_)
ExcessBits(p) == IF p < Pow2(24) THEN 0 ELSE 1 + ExcessBits(p \div 2)

\* The product p cut by its t low bits.
F32Shift(p, t, e) == F32Round(p \div Pow2(t), p % Pow2(t), Pow2(t), e - t)

\* x * float(n) for a float x and an int n
F32MulInt(x, n) == F32Shift(x.m * n, ExcessBits(x.m * n), x.e)

\* static_cast<int>(x) for a float x >= 0
F32ToInt(x) ==
    IF x.e >= 25 THEN 0
    ELSE IF x.e >= 0 THEN x.m \div Pow2(x.e)
    ELSE x.m * Pow2(-x.e)

\* count / totalPixels as a value of the fixed-point grid, rounded to nearest
F32Quot(a, b) == (2 * a * One + b) \div (2 * b)

\* ------------------------------------------------------------- extractRGChromaticityHistogram
\* src(cv::Rect(0, y, src.cols, height)): the view of the rows y .. y+height-1
Region(img, y, height) ==
    [rows |-> height, cols |-> img.cols, channels |-> img.channels,
     data |-> [r \in 0..(height - 1) |-> img.data[y + r]]]

\* Mutant: only exactly black pixels are skipped, by a test on the red channel.
SkipPixel_RedOnly(sum, r) == r < 1

\* if (sum < 1.0f) continue;
SkipPixel(sum, r) == sum < 1

\* if (r_bin >= binsPerChannel) r_bin = binsPerChannel - 1;
ClampBin(bin, bins) == IF bin >= bins THEN bins - 1 ELSE bin

\* static_cast<int>(chrom * binsPerChannel), then clamped to the last bin
ChromBin(value, sum, bins) ==
    ClampBin(F32ToInt(F32MulInt(F32Div(value, sum), bins)), bins)

\* histogram[r_bin][g_bin], at the place the flattening loop gives it
BinIndex(r_bin, g_bin, bins) == r_bin * bins + g_bin

\* The counts of a range of pixels: the bin counts (indexed from 0 by the
\* flattened bin) and the number of counted pixels.
Counted(h, n) == [histogram |-> h, totalPixels |-> n]

\* A skipped pixel counts nowhere.
NoPixel(bins) == Counted([i \in 0..(bins * bins - 1) |-> 0], 0)

\* histogram[r_bin][g_bin] += 1.0f; totalPixels++;
OnePixel(at, bins) == Counted([i \in 0..(bins * bins - 1) |-> IF i = at THEN 1 ELSE 0], 1)

\* The loop body for one pixel with the channels b, g, r.
CountPixel(b, g, r, sum, bins) ==
    IF SkipPixel(sum, r) THEN NoPixel(bins)
    ELSE OnePixel(BinIndex(ChromBin(r, sum, bins), ChromBin(g, sum, bins), bins), bins)

\* The counts of two consecutive ranges of pixels, added bin by bin.
AddCounts(lower, upper, bins) ==
    Counted([i \in 0..(bins * bins - 1) |-> lower.histogram[i] + upper.histogram[i]],
            lower.totalPixels + upper.totalPixels)

\* The pixel loop over the pixels lo .. hi in raster order.  The range is
\* counted as its lower half and its upper half, which gives the counts of
\* the loop and keeps the nesting of the evaluation shallow.
RECURSIVE HistLoop(_, _, _, _)
HistLoop(img, bins, lo, hi) ==
    IF lo > hi THEN NoPixel(bins)
    ELSE IF lo = hi
    THEN LET pixel == img.data[lo \div img.cols][lo % img.cols]
         IN  CountPixel(pixel[1], pixel[2], pixel[3],
                        pixel[3] + pixel[2] + pixel[1], bins)
    ELSE AddCounts(HistLoop(img, bins, lo, (lo + hi) \div 2),
                   HistLoop(img, bins, (lo + hi) \div 2 + 1, hi), bins)

\* Mutant: the counts are divided by the number of all pixels of the image.
Denominator_AllPixels(img, counted) == img.rows * img.cols

\* histogram[r_bin][g_bin] /= totalPixels
Denominator(img, counted) == counted

\* The outcome of an extractor: its return value, the feature vector left
\* in the output parameter, and what it computed on the way.
Extracted(res, f, h, n, rects) ==
    [result |-> res, feature |-> f, histogram |-> h, totalPixels |-> n, regions |-> rects]

\* The closing size check of an extractor: -1 when the vector built has not
\* the expected number of values.
SizeChecked(f, size, h, n, rects) ==
    IF Len(f) # size THEN Extracted(-1, f, h, n, rects)
    ELSE Extracted(0, f, h, n, rects)

\* The normalising loop and the flattening loop over the counts of HistLoop.
Normalised(img, bins, loop) ==
    SizeChecked([i \in 1..(bins * bins) |->
                    IF loop.totalPixels > 0
                    THEN F32Quot(loop.histogram[i - 1],
                                 Denominator(img, loop.totalPixels))
                    ELSE loop.histogram[i - 1]],
                bins * bins,
                [i \in 1..(bins * bins) |-> loop.histogram[i - 1]],
                loop.totalPixels, <<>>)

extractRGChromaticityHistogram(img, bins) ==
    IF Empty(img) THEN Extracted(-1, <<>>, <<>>, 0, <<>>)
    ELSE IF WrongChannels(img) THEN Extracted(-1, <<>>, <<>>, 0, <<>>)
    ELSE Normalised(img, bins, HistLoop(img, bins, 0, img.rows * img.cols - 1))

\* ------------------------------------------------------------- extractMultiHistogram
\* feature.insert(feature.end(), ...), once for each part in turn
Concat(first, second) == first \o second

\* cv::Rect topRegion(0, 0, src.cols, midRow);
\* cv::Rect bottomRegion(0, midRow, src.cols, src.rows - midRow);
HalfRects(rows, midRow) ==
    <<[y |-> 0, height |-> midRow], [y |-> midRow, height |-> rows - midRow]>>

\* The two halves' histograms put together, or the failure of a half.
JoinHalves(topHistogram, bottomHistogram, bins, rects) ==
    IF topHistogram.result # 0 THEN Extracted(-1, <<>>, <<>>, 0, rects)
    ELSE IF bottomHistogram.result # 0 THEN Extracted(-1, <<>>, <<>>, 0, rects)
    ELSE SizeChecked(Concat(topHistogram.feature, bottomHistogram.feature),
                     2 * bins * bins, <<>>, 0, rects)

HalfHistograms(img, bins, rects) ==
    JoinHalves(extractRGChromaticityHistogram(
                    Region(img, rects[1].y, rects[1].height), bins),
               extractRGChromaticityHistogram(
                    Region(img, rects[2].y, rects[2].height), bins),
               bins, rects)

extractMultiHistogram(img, bins) ==
    IF Empty(img) THEN Extracted(-1, <<>>, <<>>, 0, <<>>)
    ELSE IF WrongChannels(img) THEN Extracted(-1, <<>>, <<>>, 0, <<>>)
    ELSE HalfHistograms(img, bins, HalfRects(img.rows, img.rows \div 2))

\* ------------------------------------------------------------- sobelX3x3, sobelY3x3, magnitude
\* dstRow[0][c] = 0; dstRow[temp.cols - 1][c] = 0;
BorderColumnX(temp, i, j, c, cols) == 0

sobelX3x3(img) ==
    LET smooth(i, j, c) ==
            IF i >= 1 /\ i <= img.rows - 2
            THEN (img.data[i - 1][j][c] + 2 * img.data[i][j][c]
                    + img.data[i + 1][j][c]) \div 4
            ELSE img.data[i][j][c]
        temp == [i \in 0..(img.rows - 1) |-> [j \in 0..(img.cols - 1) |->
                    [c \in 1..3 |-> smooth(i, j, c)]]]
        gradient(i, j, c) ==
            IF j >= 1 /\ j <= img.cols - 2
            THEN temp[i][j + 1][c] - temp[i][j - 1][c]
            ELSE BorderColumnX(temp, i, j, c, img.cols)
    IN  [i \in 0..(img.rows - 1) |-> [j \in 0..(img.cols - 1) |->
            [c \in 1..3 |-> gradient(i, j, c)]]]

sobelY3x3(img) ==
    LET smooth(i, j, c) ==
            IF j >= 1 /\ j <= img.cols - 2
            THEN (img.data[i][j - 1][c] + 2 * img.data[i][j][c]
                    + img.data[i][j + 1][c]) \div 4
            ELSE img.data[i][j][c]
        temp == [i \in 0..(img.rows - 1) |-> [j \in 0..(img.cols - 1) |->
                    [c \in 1..3 |-> smooth(i, j, c)]]]
        gradient(i, j, c) ==
            IF i >= 1 /\ i <= img.rows - 2
            THEN temp[i - 1][j][c] - temp[i + 1][j][c]
            ELSE 0
    IN  [i \in 0..(img.rows - 1) |-> [j \in 0..(img.cols - 1) |->
            [c \in 1..3 |-> gradient(i, j, c)]]]

\* (unsigned char) sqrt(x): the integer part of the square root
Sqrt(x) == CHOOSE s \in 0..361 : s * s <= x /\ (s + 1) * (s + 1) > x

magnitude(img, sx, sy) ==
    LET clamped(i, j, c) ==
            LET gx == sx[i][j][c]
                gy == sy[i][j][c]
                mag == Sqrt(gx * gx + gy * gy)
            IN  IF mag > 255 THEN 255 ELSE mag
    IN  [i \in 0..(img.rows - 1) |-> [j \in 0..(img.cols - 1) |->
            [c \in 1..3 |-> clamped(i, j, c)]]]

\* ------------------------------------------------------------- extractGradientMagnitudeHistogram
\* cv::cvtColor(mag, magGray, cv::COLOR_BGR2GRAY) on 8-bit pixels:
\* 0.114 B + 0.587 G + 0.299 R, rounded to the nearest integer
BGR2GRAY(pixel) == (114 * pixel[1] + 587 * pixel[2] + 299 * pixel[3] + 500) \div 1000

\* The bin loop over the pixels lo .. hi in raster order, counted as its
\* lower half and its upper half.
RECURSIVE MagnitudeLoop(_, _, _, _, _)
MagnitudeLoop(img, magGray, bins, lo, hi) ==
    IF lo > hi THEN [i \in 0..(bins - 1) |-> 0]
    ELSE IF lo = hi
    THEN LET value == magGray[lo \div img.cols][lo % img.cols]
             bin == (value * bins) \div 256
             at == IF bin >= bins THEN bins - 1 ELSE bin
         IN  [i \in 0..(bins - 1) |-> IF i = at THEN 1 ELSE 0]
    ELSE LET lower == MagnitudeLoop(img, magGray, bins, lo, (lo + hi) \div 2)
             upper == MagnitudeLoop(img, magGray, bins, (lo + hi) \div 2 + 1, hi)
         IN  [i \in 0..(bins - 1) |-> lower[i] + upper[i]]

\* The grey plane of the magnitude image.
GrayPlane(img, mag) ==
    [i \in 0..(img.rows - 1) |-> [j \in 0..(img.cols - 1) |-> BGR2GRAY(mag[i][j])]]

\* histogram[i] /= totalPixels, when there are pixels
TextureHistogram(bins, total, counts) ==
    [result |-> 0,
     feature |-> [i \in 1..bins |->
                    IF total > 0 THEN F32Quot(counts[i - 1], total)
                    ELSE counts[i - 1]]]

extractGradientMagnitudeHistogram(img, bins) ==
    TextureHistogram(bins, img.rows * img.cols,
        MagnitudeLoop(img,
                      GrayPlane(img, magnitude(img, sobelX3x3(img), sobelY3x3(img))),
                      bins, 0, img.rows * img.cols - 1))

\* ------------------------------------------------------------- extractTextureColorFeature
\* The colour part and the texture part put together, or the failure of a part.
JoinColorTexture(colorFeature, textureFeature, size) ==
    IF colorFeature.result # 0 THEN Extracted(-1, <<>>, <<>>, 0, <<>>)
    ELSE IF textureFeature.result # 0 THEN Extracted(-1, <<>>, <<>>, 0, <<>>)
    ELSE SizeChecked(Concat(colorFeature.feature, textureFeature.feature),
                     size, <<>>, 0, <<>>)

extractTextureColorFeature(img, colorBins, textureBins) ==
    IF Empty(img) THEN Extracted(-1, <<>>, <<>>, 0, <<>>)
    ELSE IF WrongChannels(img) THEN Extracted(-1, <<>>, <<>>, 0, <<>>)
    ELSE JoinColorTexture(extractRGChromaticityHistogram(img, colorBins),
                          extractGradientMagnitudeHistogram(img, textureBins),
                          colorBins * colorBins + textureBins)

\* ------------------------------------------------------------- calculateBlueDominance
Max3(a, b, c) == IF a >= b /\ a >= c THEN a ELSE IF b >= c THEN b ELSE c
Min3(a, b, c) == IF a <= b /\ a <= c THEN a ELSE IF b <= c THEN b ELSE c
\* a / b rounded to the nearest integer, for b > 0
RoundDiv(a, b) == (2 * a + b) \div (2 * b)

\* The hue angle in degrees of a pixel whose largest channel is v and whose
\* channels span diff.
HueDegrees(b, g, r, v, diff) ==
    IF diff = 0 THEN 0
    ELSE IF v = r THEN RoundDiv(60 * (g - b) + 360 * diff, diff) % 360
    ELSE IF v = g THEN RoundDiv(60 * (b - r) + 120 * diff, diff)
    ELSE RoundDiv(60 * (r - g) + 240 * diff, diff)

\* S = 255 (V - min) / V, H half the hue angle
HSV(b, g, r, v, diff) ==
    [hue |-> RoundDiv(HueDegrees(b, g, r, v, diff), 2) % 180,
     saturation |-> IF v = 0 THEN 0 ELSE RoundDiv(255 * diff, v),
     value |-> v]

\* cv::cvtColor(src, hsv, cv::COLOR_BGR2HSV) on 8-bit pixels: V the largest
\* channel
BGR2HSV(pixel) ==
    HSV(pixel[1], pixel[2], pixel[3], Max3(pixel[1], pixel[2], pixel[3]),
        Max3(pixel[1], pixel[2], pixel[3]) - Min3(pixel[1], pixel[2], pixel[3]))

\* hue >= 100 && hue <= 130 && saturation > 30 && value > 50
IsBlue(hsv) ==
    hsv.hue >= 100 /\ hsv.hue <= 130 /\ hsv.saturation > 30 /\ hsv.value > 50

calculateBlueDominance(img) ==
    IF Empty(img) \/ WrongChannels(img) THEN 0
    ELSE LET bluePixels == Cardinality(
                {p \in (0..(img.rows - 1)) \X (0..(img.cols - 1)) :
                    IsBlue(BGR2HSV(img.data[p[1]][p[2]]))})
             total == img.rows * img.cols
         IN  F32Quot(bluePixels, total)

\* ------------------------------------------------------------- extractCustomBlueSceneFeature
\* Mutant: the middle band starts one row late.
MiddleRect_Shifted(regionHeight) == [y |-> regionHeight + 1, height |-> regionHeight]

\* cv::Rect middleRect(0, regionHeight, src.cols, regionHeight)
MiddleRect(regionHeight) == [y |-> regionHeight, height |-> regionHeight]

\* topRect, middleRect, bottomRect for regionHeight = src.rows / 3
BandRects(rows, regionHeight) ==
    <<[y |-> 0, height |-> regionHeight],
      MiddleRect(regionHeight),
      [y |-> 2 * regionHeight, height |-> rows - 2 * regionHeight]>>

\* The band histograms appended in turn to the values already pushed; the
\* failure of a band returns -1 and leaves what was pushed before it.
JoinBands(head, topHist, middleHist, bottomHist, rects) ==
    IF topHist.result # 0 THEN Extracted(-1, head, <<>>, 0, <<rects[1]>>)
    ELSE IF middleHist.result # 0
         THEN Extracted(-1, Concat(head, topHist.feature), <<>>, 0,
                        <<rects[1], rects[2]>>)
    ELSE IF bottomHist.result # 0
         THEN Extracted(-1, Concat(Concat(head, topHist.feature), middleHist.feature),
                        <<>>, 0, rects)
    ELSE SizeChecked(Concat(Concat(Concat(head, topHist.feature), middleHist.feature),
                            bottomHist.feature),
                     1 + 16 + 3 * 8 * 8, <<>>, 0, rects)

BandHistograms(img, head, rects) ==
    JoinBands(head,
              extractRGChromaticityHistogram(Region(img, rects[1].y, rects[1].height), 8),
              extractRGChromaticityHistogram(Region(img, rects[2].y, rects[2].height), 8),
              extractRGChromaticityHistogram(Region(img, rects[3].y, rects[3].height), 8),
              rects)

\* feature.push_back(blueDominance), then the texture histogram, then the bands
BlueSceneParts(img, blueDominance, textureFeature) ==
    IF textureFeature.result # 0 THEN Extracted(-1, <<blueDominance>>, <<>>, 0, <<>>)
    ELSE BandHistograms(img, Concat(<<blueDominance>>, textureFeature.feature),
                        BandRects(img.rows, img.rows \div 3))

extractCustomBlueSceneFeature(img) ==
    IF Empty(img) THEN Extracted(-1, <<>>, <<>>, 0, <<>>)
    ELSE IF WrongChannels(img) THEN Extracted(-1, <<>>, <<>>, 0, <<>>)
    ELSE BlueSceneParts(img, calculateBlueDominance(img),
                        extractGradientMagnitudeHistogram(img, 16))

\* ------------------------------------------------------------- inputs
\* All vectors over the values S of length 0 .. n.
Vecs(S, n) == UNION {[1..k -> S] : k \in 0..n}

\* Operand pairs: every pair of equal length, and every pair of two short
\* vectors whatever their lengths.
Pairs(S) ==
    {p \in Vecs(S, MaxLen) \X Vecs(S, MaxLen) :
        Len(p[1]) = Len(p[2]) \/ (Len(p[1]) <= 2 /\ Len(p[2]) <= 2)}

\* Pixel-like values for distanceSSD, histogram bins for the intersection
\* metrics, and values around the 1e-10 threshold (in 1e-11) for distanceCosine.
SSDVals == {0, 3 * One}
HistVals == {0, Half, One}
BinVals == {0, One}
CosVals == {-8, 0, 6}
WeightLists ==
    UNION {[1..k -> {0, One}] \cup {[i \in 1..k |-> Half]} : k \in 0..MaxHist}
WeightPairs == {<<Half, Half>>, <<One, 0>>, <<One, One>>, <<0, 0>>}

\* A 209-value custom feature: blue dominance b, the texture mass in bin t,
\* the mass of each of the three band histograms in bin s.
MkCustom(b, t, s, len) ==
    [i \in 1..len |->
        IF i = 1 THEN b
        ELSE IF i <= TextureEnd THEN (IF i = 1 + t THEN One ELSE 0)
        ELSE IF (i - TextureEnd - 1) % 64 = s - 1 THEN One ELSE 0]
\* The same with a second texture bin filled: entries in [0,1], texture
\* mass 2.
MkOverfull(b, t, s, len) == [MkCustom(b, t, s, len) EXCEPT ![TextureEnd] = One]
CustomVecs ==
    {MkCustom(0, 1, 1, CustomLen), MkCustom(One, 1, 1, CustomLen),
     MkCustom(0, 16, 64, CustomLen), MkCustom(Half, 1, 64, CustomLen),
     MkOverfull(0, 1, 1, CustomLen),
     MkCustom(0, 1, 1, CustomLen - 1), MkCustom(0, 1, 1, CustomLen + 1), <<>>}
\* An embedding whose first and last values are x and y, zero between.
MkDnn(x, y, len) ==
    [i \in 1..len |-> IF i = 1 THEN x ELSE IF i = len THEN y ELSE 0]
DnnVecs ==
    {MkDnn(0, 0, DnnLen), MkDnn(6, 0, DnnLen), MkDnn(6, -8, DnnLen),
     MkDnn(-8, 6, DnnLen), MkDnn(-8, -8, DnnLen),
     MkDnn(6, -8, DnnLen - 1), <<>>}

\* An image of 8-bit pixels: pixel (r, c) holds channel k (1-based, stored
\* order) = (base + 27 r + 3 c + (k-1) step) mod 256; step 0 and base b give
\* the uniform image of value b.
MkImage(rows, cols, channels, base, step) ==
    [rows |-> rows, cols |-> cols, channels |-> channels,
     data |-> [r \in 0..(rows - 1) |-> [c \in 0..(cols - 1) |->
                [k \in 1..channels |->
                    IF step = 0 THEN base
                    ELSE (base + 27 * r + 3 * c + (k - 1) * step) % 256]]]]
Images ==
    {MkImage(r, c, ch, p[1], p[2]) :
        r \in 0..MaxDim, c \in 0..MaxDim, ch \in {1, 3, 4},
        p \in {<<0, 0>>, <<255, 0>>, <<0, 1>>, <<200, 1>>}}

\* Pixels in stored (B, G, R) order.  EdgePixel has the red chromaticity
\* 13/22, which lies on a bin boundary when there are 22 bins.
Black == <<0, 0, 0>>
Blue == <<255, 0, 0>>
Red == <<0, 0, 255>>
Grey == <<90, 90, 90>>
EdgePixel == <<0, 9, 13>>
RowColours == {Black, Blue, Red}

\* An image whose row r has the pixel colours[r+1] in its first column and
\* black in every other column; a fourth channel is opaque alpha.
MkRowImage(colours, cols, channels) ==
    [rows |-> Len(colours), cols |-> cols, channels |-> channels,
     data |-> [r \in 0..(Len(colours) - 1) |-> [c \in 0..(cols - 1) |->
                [k \in 1..channels |->
                    IF k > 3 THEN 255
                    ELSE IF c = 0 THEN colours[r + 1][k] ELSE 0]]]]
RowImages ==
    {MkRowImage(colours, cols, 3) : colours \in Vecs(RowColours, MaxRows), cols \in {1, 2}}
SpecialImages ==
    {MkRowImage(<<EdgePixel>>, 1, 3), MkRowImage(<<EdgePixel, EdgePixel, Blue>>, 2, 3),
     MkRowImage(<<Grey, Grey, Grey, Grey>>, 1, 3),
     MkRowImage(<<Blue>>, 1, 1), MkRowImage(<<Blue, Red, Blue>>, 1, 4),
     MkImage(3, 3, 3, 200, 0), MkImage(4, 3, 3, 0, 1), MkImage(3, 4, 3, 200, 1)}
HistImages == RowImages \cup SpecialImages
\* Bin counts: the defaults 16 and 8 of features.h, and small and odd ones.
HistBins == {1, 2, 16, 22}
MultiBins == {1, 8}
ColorBins == {2, 16}

\* ------------------------------------------------------------- specification
NoImage == MkImage(0, 0, 1, 0, 0)

Init ==
    /\ pc = "idle" /\ fn = "none"
    /\ feature1 = <<>> /\ feature2 = <<>>
    /\ dnnFeature1 = <<>> /\ dnnFeature2 = <<>>
    /\ numHistograms = 0 /\ weights = <<>>
    /\ colorSize = 0 /\ textureSize = 0
    /\ colorWeight = 0 /\ textureWeight = 0
    /\ ret = 0 /\ ops = 0 /\ sub = 0
    /\ src = NoImage /\ feature = <<>> /\ result = 0 /\ pixelReads = {}
    /\ binsPerChannel = 0 /\ histogram = <<>> /\ totalPixels = 0 /\ regions = <<>>
    /\ featureType = "none" /\ targetFeature = <<>> /\ targetDNNFeature = <<>>
    /\ database = <<>> /\ dnnDatabase = <<>> /\ idx = 0 /\ results = <<>>
    /\ filenames = <<>> /\ allFeatures = <<>>
    /\ successCount = 0 /\ failCount = 0 /\ fileIdx = 0
    /\ csvFile = [opened |-> FALSE, lines |-> <<>>] /\ features = <<>>
    /\ dst = <<>>
    /\ targetImagePath = <<>> /\ targetFilename = <<>>
    /\ allImages = <<>> /\ databases = {} /\ currentTarget = <<>>
    /\ browserPage = 0 /\ maxPages = 0
    /\ searchActive = FALSE /\ searchText = <<>> /\ searchResults = <<>>
    /\ featureIdx = 0 /\ clickRegions = <<>>
    /\ clicked = FALSE /\ clickedFile = <<>> /\ key = -1

\* The return of a distance call: the operands are recorded with the
\* outcome o of the call.
DistReturn(name, f1, f2, o) ==
    /\ pc' = IF o.fault THEN "fault" ELSE "returned"
    /\ fn' = name
    /\ feature1' = f1 /\ feature2' = f2
    /\ ret' = o.ret /\ ops' = o.ops /\ sub' = o.sub
    /\ UNCHANGED <<imgVars, histVars, queryVars, extVars>>

\* What a build can do where the source's behaviour is undefined (integer
\* division by zero): trap, or yield a quotient of 0, after which the
\* modulus check sees a non-zero remainder and returns the error value.
Outcomes(o) == IF o.fault THEN {o, Out(ERR, 0, 0)} ELSE {o}

CallSSD ==
    /\ pc = "idle"
    /\ \E p \in Pairs(SSDVals) :
        /\ DistReturn("distanceSSD", p[1], p[2], distanceSSD(p[1], p[2]))
        /\ UNCHANGED <<dnnFeature1, dnnFeature2, numHistograms, weights,
                       colorSize, textureSize, colorWeight, textureWeight>>

CallHistogramIntersection ==
    /\ pc = "idle"
    /\ \E p \in Pairs(HistVals) :
        /\ DistReturn("distanceHistogramIntersection", p[1], p[2],
                      distanceHistogramIntersection(p[1], p[2]))
        /\ UNCHANGED <<dnnFeature1, dnnFeature2, numHistograms, weights,
                       colorSize, textureSize, colorWeight, textureWeight>>

CallMultiHistogram ==
    /\ pc = "idle"
    /\ \E p \in Pairs(BinVals), n \in -1..MaxHist, w \in WeightLists :
        /\ Len(w) - n \in {-1, 0, 1}
        /\ \E o \in Outcomes(distanceMultiHistogram(p[1], p[2], n, w)) :
              DistReturn("distanceMultiHistogram", p[1], p[2], o)
        /\ numHistograms' = n /\ weights' = w
        /\ UNCHANGED <<dnnFeature1, dnnFeature2,
                       colorSize, textureSize, colorWeight, textureWeight>>

CallTextureColor ==
    /\ pc = "idle"
    /\ \E p \in Pairs(BinVals), cs \in 0..MaxLen, ts \in 0..MaxLen, wp \in WeightPairs :
        /\ cs + ts <= MaxLen
        /\ DistReturn("distanceTextureColor", p[1], p[2],
                      distanceTextureColor(p[1], p[2], cs, ts, wp[1], wp[2]))
        /\ colorSize' = cs /\ textureSize' = ts
        /\ colorWeight' = wp[1] /\ textureWeight' = wp[2]
        /\ UNCHANGED <<dnnFeature1, dnnFeature2, numHistograms, weights>>

CallCosine ==
    /\ pc = "idle"
    /\ \E p \in Pairs(CosVals) :
        /\ DistReturn("distanceCosine", p[1], p[2], distanceCosine(p[1], p[2]))
        /\ UNCHANGED <<dnnFeature1, dnnFeature2, numHistograms, weights,
                       colorSize, textureSize, colorWeight, textureWeight>>

CallCustomBlueScene ==
    /\ pc = "idle"
    /\ \E c1 \in CustomVecs, c2 \in CustomVecs, d1 \in DnnVecs, d2 \in DnnVecs :
        /\ DistReturn("distanceCustomBlueScene", c1, c2,
                      distanceCustomBlueScene(c1, c2, d1, d2))
        /\ dnnFeature1' = d1 /\ dnnFeature2' = d2
        /\ UNCHANGED <<numHistograms, weights,
                       colorSize, textureSize, colorWeight, textureWeight>>

NextDistance ==
    \/ CallSSD
    \/ CallHistogramIntersection
    \/ CallMultiHistogram
    \/ CallTextureColor
    \/ CallCosine
    \/ CallCustomBlueScene

\* The distance metrics, each called once on operands drawn from the input sets.
SpecDistance == Init /\ [][NextDistance]_vars

CallBaseline ==
    /\ pc = "idle"
    /\ \E img \in Images :
        LET o == extractBaselineFeature(img)
        IN  /\ pc' = "returned"
            /\ fn' = "extractBaselineFeature"
            /\ src' = img
            /\ feature' = o.feature
            /\ result' = o.result
            /\ pixelReads' = BaselineReads(img)
            /\ UNCHANGED <<ret, ops, distVars, histVars, queryVars, extVars>>

NextBaseline == CallBaseline

\* The centre-patch extractor, called once on an image drawn from Images.
SpecBaseline == Init /\ [][NextBaseline]_vars

\* ------------------------------------------------------------- histogram extractors
\* The return of an extractor: the image and the bin count are recorded
\* with the outcome o of the call.
ExtractReturn(name, img, bins, o) ==
    /\ pc' = "returned"
    /\ fn' = name
    /\ src' = img
    /\ binsPerChannel' = bins
    /\ feature' = o.feature
    /\ result' = o.result
    /\ histogram' = o.histogram
    /\ totalPixels' = o.totalPixels
    /\ regions' = o.regions
    /\ UNCHANGED <<ret, ops, distVars, queryVars, extVars, pixelReads>>

CallRGChromaticityHistogram ==
    /\ pc = "idle"
    /\ \E img \in HistImages, bins \in HistBins :
        ExtractReturn("extractRGChromaticityHistogram", img, bins,
                      extractRGChromaticityHistogram(img, bins))

CallExtractMultiHistogram ==
    /\ pc = "idle"
    /\ \E img \in HistImages, bins \in MultiBins :
        ExtractReturn("extractMultiHistogram", img, bins,
                      extractMultiHistogram(img, bins))

CallExtractTextureColorFeature ==
    /\ pc = "idle"
    /\ \E img \in HistImages, bins \in ColorBins :
        ExtractReturn("extractTextureColorFeature", img, bins,
                      extractTextureColorFeature(img, bins, 16))

CallExtractCustomBlueSceneFeature ==
    /\ pc = "idle"
    /\ \E img \in HistImages :
        ExtractReturn("extractCustomBlueSceneFeature", img, 8,
                      extractCustomBlueSceneFeature(img))

NextExtract ==
    \/ CallRGChromaticityHistogram
    \/ CallExtractMultiHistogram
    \/ CallExtractTextureColorFeature
    \/ CallExtractCustomBlueSceneFeature

\* The histogram extractors, each called once on an image drawn from HistImages.
SpecExtract == Init /\ [][NextExtract]_vars

\* ------------------------------------------------------------- main_query: inputs
\* A query image with 13 counted pixels in three chromaticity bins (4 blue,
\* 8 grey, 1 red): its histogram bins 4/13, 8/13, 1/13 round to a sum above 1.
QueryImageA ==
    MkRowImage(<<Blue, Blue, Blue, Blue, Grey, Grey, Grey, Grey, Grey, Grey, Grey, Grey,
                 Red>>, 1, 3)
QueryImages == {QueryImageA, MkImage(7, 7, 3, 0, 1)}
FeatureTypes == {"baseline", "histogram", "multihistogram", "texture", "dnn", "custom"}

\* The extractor call main_query and main_extract_features make for a
\* feature type, with the default bin counts of features.h.
ExtractFor(type, img) ==
    CASE type = "baseline" ->
            LET o == extractBaselineFeature(img)
            IN  Extracted(o.result, o.feature, <<>>, 0, <<>>)
      [] type = "histogram" -> extractRGChromaticityHistogram(img, 16)
      [] type = "multihistogram" -> extractMultiHistogram(img, 8)
      [] type = "texture" -> extractTextureColorFeature(img, 16, 16)
      [] type = "custom" -> extractCustomBlueSceneFeature(img)
      [] OTHER -> Extracted(-1, <<>>, <<>>, 0, <<>>)

\* What the extractor of each feature type makes of each query image.
ExtractedFor ==
    [type \in FeatureTypes |-> [img \in QueryImages |-> ExtractFor(type, img)]]

\* The feature vectors a CSV of the type can hold: those the extraction
\* program wrote for the images it could process, a record of another
\* length, for "baseline" also the patch of a black image, and for "dnn"
\* embeddings.
Embeddings == {MkDnn(6, 0, DnnLen), MkDnn(6, -8, DnnLen)}
StoredFeatures ==
    [type \in FeatureTypes |->
        IF type = "dnn" THEN Embeddings \cup {<<6, 0>>}
        ELSE {ExtractedFor[type][img].feature :
                img \in {i \in QueryImages : ExtractedFor[type][i].result = 0}}
             \cup {<<One>>}
             \cup (IF type = "baseline" THEN {[i \in 1..147 |-> 0]} ELSE {})]

\* A database: records 1 .. n in file order, the record k under the
\* filename k.
Databases ==
    [type \in FeatureTypes |->
        UNION {{[k \in 1..n |-> [filename |-> k, feature |-> f[k]]] :
                    f \in [1..n -> StoredFeatures[type]]} : n \in 1..MaxDb}]
\* Embedding databases whose records all carry the filename 1.
SameNameDatabases ==
    UNION {{[k \in 1..n |-> [filename |-> 1, feature |-> f[k]]] :
                f \in [1..n -> StoredFeatures["dnn"]]} : n \in 2..MaxDb}

\* A path is a sequence of character codes.  The filename of a record is a
\* one-character string, held as the code of its character; the target
\* image of the other modes is the file 0.
Slash == 47
Backslash == 92
DirChar == 9
TargetPaths ==
    {<<0>>, <<1>>, <<1, 2>>, <<DirChar, Slash, 2>>, <<DirChar, Backslash, 1>>,
     <<1, Slash>>, <<2, Slash, DirChar, Backslash, 3>>}

\* targetFilename.find_last_of("/\\"): the place of the last separator, 0
\* when there is none.
RECURSIVE LastSlash(_, _)
LastSlash(path, k) ==
    IF k = 0 THEN 0
    ELSE IF path[k] = Slash \/ path[k] = Backslash THEN k
    ELSE LastSlash(path, k - 1)

\* Mutant: the path is compared whole.
Basename_WholePath(path) == path

\* targetFilename = targetFilename.substr(lastSlash + 1), when a separator
\* was found
Basename(path) == SubSeq(path, LastSlash(path, Len(path)) + 1, Len(path))

\* data.filename == name, for the one-character filename of a record: the
\* code a string spells, or a code no record carries.
NameCode(name) == IF Len(name) = 1 THEN name[1] ELSE MaxDb + 1

\* An embedding CSV: with an embedding for the target (filename 0) and for
\* every database record, for all but the first record, for the records
\* only, or empty.
EmbeddingsFor(names) ==
    SelectSeq([k \in 1..(MaxDb + 1) |-> [filename |-> k - 1, feature |-> MkDnn(6, 0, DnnLen)]],
              LAMBDA rec : rec.filename \in names)
DnnDatabases ==
    {EmbeddingsFor(0..MaxDb), EmbeddingsFor((0..MaxDb) \ {1}), EmbeddingsFor(1..MaxDb),
     <<>>}

\* ------------------------------------------------------------- main_query: steps 2-6
\* for (const auto &data : db) if (data.filename == name) { ...; break; }
RECURSIVE Find(_, _, _)
Find(db, name, k) ==
    IF k > Len(db) THEN [found |-> FALSE, feature |-> <<>>]
    ELSE IF db[k].filename = name THEN [found |-> TRUE, feature |-> db[k].feature]
    ELSE Find(db, name, k + 1)

\* The distance call of the ranking loop for the feature type.
ComputeDist(type, f1, f2, d1, d2) ==
    CASE type = "baseline" -> distanceSSD(f1, f2).ret
      [] type = "histogram" -> distanceHistogramIntersection(f1, f2).ret
      [] type = "multihistogram" -> distanceMultiHistogram(f1, f2, 2, <<Half, Half>>).ret
      [] type = "texture" -> distanceTextureColor(f1, f2, 256, 16, Half, Half).ret
      [] type = "dnn" -> distanceCosine(f1, f2).ret
      [] type = "custom" -> distanceCustomBlueScene(f1, f2, d1, d2).ret

\* Steps 2-4: the target feature is extracted from the target image (or, in
\* "dnn" mode, found in the database under the target's filename), the
\* database is read, and in "custom" mode the embedding database is read and
\* the target's embedding found in it.  Any failure ends the program.
LoadQuery ==
    /\ pc = "idle"
    /\ \E type \in FeatureTypes, img \in QueryImages, path \in TargetPaths :
        \E db \in Databases[type] \cup (IF type = "dnn" THEN SameNameDatabases ELSE {}),
           dnnDb \in IF type = "custom" THEN DnnDatabases ELSE {<<>>} :
            LET extracted == ExtractedFor[type][img]
                inDb == Find(db, NameCode(Basename(path)), 1)
                inDnnDb == Find(dnnDb, NameCode(Basename(path)), 1)
                failed == \/ type # "dnn" /\ extracted.result # 0
                          \/ type = "dnn" /\ ~inDb.found
                          \/ type = "custom" /\ (dnnDb = <<>> \/ ~inDnnDb.found)
            IN  /\ type = "dnn" \/ path = <<0>>
                /\ targetImagePath' = path
                /\ targetFilename' = Basename(path)
                /\ type # "dnn" \/ img = QueryImageA
                /\ fn' = "main_query"
                /\ featureType' = type
                /\ database' = db
                /\ dnnDatabase' = dnnDb
                /\ targetFeature' = IF type = "dnn" THEN inDb.feature ELSE extracted.feature
                /\ targetDNNFeature' = IF type = "custom" THEN inDnnDb.feature ELSE <<>>
                /\ pc' = IF failed THEN "exited" ELSE "compare"
                /\ idx' = 0 /\ results' = <<>>
                /\ UNCHANGED <<ret, ops, distVars, imgVars, histVars, batchVars, csvVars, dst, guiVars>>

\* if (dist < 0) { ...; continue; }
IsErrorDistance(dist) == dist < 0

\* Step 5, one iteration of the loop over the database.
CompareEntry ==
    /\ pc = "compare"
    /\ idx < Len(database)
    /\ LET entry == database[idx + 1]
           dnn == Find(dnnDatabase, entry.filename, 1)
           dist == ComputeDist(featureType, targetFeature, entry.feature,
                               targetDNNFeature, dnn.feature)
       IN  /\ results' = IF featureType = "custom" /\ ~dnn.found THEN results
                         ELSE IF IsErrorDistance(dist) THEN results
                         ELSE Append(results, [filename |-> entry.filename,
                                               distance |-> dist])
           /\ ret' = IF featureType = "custom" /\ ~dnn.found THEN ret ELSE dist
    /\ idx' = idx + 1
    /\ UNCHANGED <<extVars, pc, fn, ops, distVars, imgVars, histVars, featureType, targetFeature,
                   targetDNNFeature, database, dnnDatabase>>

\* The loop condition i < database.size() fails: on to step 6.
EndCompare ==
    /\ pc = "compare"
    /\ idx = Len(database)
    /\ pc' = "sort"
    /\ UNCHANGED <<fn, ret, ops, distVars, imgVars, histVars, queryVars, extVars>>

\* What std::sort guarantees of two neighbours a, b of its output under
\* MatchResult::operator<: not (b < a).
InOrder(a, b) == ~(b.distance < a.distance)

\* The outcomes of std::sort(results.begin(), results.end()): every
\* arrangement of the elements in which no element is less than its
\* predecessor.  std::sort leaves the order of equivalent elements
\* unspecified, so each such arrangement is an outcome.
Sorted(list) ==
    {s \in {[k \in 1..Len(list) |-> list[p[k]]] :
                p \in {q \in [1..Len(list) -> 1..Len(list)] :
                          \A i, j \in 1..Len(list) : i # j => q[i] # q[j]}} :
        \A k \in 1..(Len(s) - 1) : InOrder(s[k], s[k + 1])}

\* Step 6.
SortResults ==
    /\ pc = "sort"
    /\ results' \in Sorted(results)
    /\ pc' = "done"
    /\ UNCHANGED <<extVars, fn, ret, ops, distVars, imgVars, histVars, featureType, targetFeature,
                   targetDNNFeature, database, dnnDatabase, idx>>

NextQuery ==
    \/ LoadQuery
    \/ CompareEntry
    \/ EndCompare
    \/ SortResults

\* One run of the query program up to the sorted result list.
SpecQuery == Init /\ [][NextQuery]_vars

\* ------------------------------------------------------------- main_extract_features: batch loop
\* What cv::imread returns for a file: an empty image when the file cannot
\* be decoded, otherwise a 3-channel image of any size.
BatchImages ==
    {NoImage, MkRowImage(<<Blue>>, 1, 3), MkRowImage(<<Blue, Grey>>, 1, 3),
     MkRowImage(<<Blue, Grey, Red>>, 2, 3), MkImage(7, 7, 3, 0, 1)}
\* The feature types that pass the checks before the loop.
BatchTypes == FeatureTypes \ {"dnn"}
\* What the extractor of each feature type makes of each image.
BatchExtracted ==
    [type \in BatchTypes |-> [img \in BatchImages |-> ExtractFor(type, img)]]
\* The directories: the file k of a directory has the filename k.
Directories == UNION {[1..n -> BatchImages] : n \in 0..MaxFiles}

\* Steps 1-2: the feature type is validated and the filenames are read; an
\* empty directory ends the program.
StartBatch ==
    /\ pc = "idle"
    /\ \E type \in BatchTypes, dir \in Directories :
        /\ featureType' = type
        /\ filenames' = dir
        /\ pc' = IF dir = <<>> THEN "exited" ELSE "extract"
    /\ fn' = "main_extract_features"
    /\ allFeatures' = <<>> /\ successCount' = 0 /\ failCount' = 0 /\ fileIdx' = 0
    /\ UNCHANGED <<ret, ops, distVars, imgVars, histVars, targetFeature, targetDNNFeature,
                   database, dnnDatabase, idx, results, moreVars>>

\* Mutant: a failed image is not counted.
CountFailure_Dropped(count) == count

\* failCount++; continue;
CountFailure(count) == count + 1

\* The loop body after cv::imread: the image and the outcome of its extractor.
ProcessImage(filename, image, extracted) ==
    IF Empty(image)
    THEN /\ failCount' = CountFailure(failCount)
         /\ UNCHANGED <<allFeatures, successCount>>
    ELSE IF extracted.result # 0
    THEN /\ failCount' = CountFailure(failCount)
         /\ UNCHANGED <<allFeatures, successCount>>
    ELSE /\ allFeatures' = Append(allFeatures, [filename |-> filename,
                                                feature |-> extracted.feature])
         /\ successCount' = successCount + 1
         /\ UNCHANGED failCount

\* Step 3, one iteration of the loop over the filenames.
ExtractImage ==
    /\ pc = "extract"
    /\ fileIdx < Len(filenames)
    /\ ProcessImage(fileIdx + 1, filenames[fileIdx + 1],
                    BatchExtracted[featureType][filenames[fileIdx + 1]])
    /\ fileIdx' = fileIdx + 1
    /\ UNCHANGED <<pc, fn, ret, ops, distVars, imgVars, histVars, queryVars, filenames,
                   moreVars>>

\* Steps 4-5: the loop condition fails; with no feature extracted the
\* program ends with an error, otherwise the records are written.
EndBatch ==
    /\ pc = "extract"
    /\ fileIdx = Len(filenames)
    /\ pc' = IF allFeatures = <<>> THEN "exited" ELSE "done"
    /\ UNCHANGED <<fn, ret, ops, distVars, imgVars, histVars, queryVars, extVars>>

NextBatch ==
    \/ StartBatch
    \/ ExtractImage
    \/ EndBatch

\* One run of the extraction program.
SpecBatch == Init /\ [][NextBatch]_vars

\* ------------------------------------------------------------- readFeaturesFromCSV
\* A line is a sequence of characters.  The characters of the files are the
\* digits, the decimal point, the signs, the blank, the comma and letters
\* that are part of no number; exponents, "inf" and "nan" are not among them.
IsDigit(c) == c \in {"0", "1", "2", "3", "4", "5", "6", "7", "8", "9"}
DigitValue(c) ==
    CASE c = "0" -> 0 [] c = "1" -> 1 [] c = "2" -> 2 [] c = "3" -> 3 [] c = "4" -> 4
      [] c = "5" -> 5 [] c = "6" -> 6 [] c = "7" -> 7 [] c = "8" -> 8 [] c = "9" -> 9
RECURSIVE Pow10(_)
Pow10(k) == IF k = 0 THEN 1 ELSE 10 * Pow10(k - 1)

\* std::getline(ss, token, ','): the tokens of a line from the character k
\* on, token being the characters read since the last comma.  The end of the
\* line closes a token only when characters were read for it.
RECURSIVE Tokens(_, _, _)
Tokens(line, k, token) ==
    IF k > Len(line) THEN (IF token = <<>> THEN <<>> ELSE <<token>>)
    ELSE IF line[k] = "," THEN <<token>> \o Tokens(line, k + 1, <<>>)
    ELSE Tokens(line, k + 1, Append(token, line[k]))

\* std::stof skips leading blanks.
RECURSIVE SkipSpace(_, _)
SkipSpace(token, k) ==
    IF k <= Len(token) /\ token[k] = " " THEN SkipSpace(token, k + 1) ELSE k

\* The digits from the character k on: their number, their count and the
\* place after them.
RECURSIVE ReadDigits(_, _, _, _)
ReadDigits(token, k, number, count) ==
    IF k <= Len(token) /\ IsDigit(token[k])
    THEN ReadDigits(token, k + 1, 10 * number + DigitValue(token[k]), count + 1)
    ELSE [value |-> number, digits |-> count, next |-> k]

\* The conversion: std::invalid_argument is thrown when no digit was read,
\* otherwise the value of the longest numeric prefix is returned and what
\* follows it is ignored.
Converted(sign, whole, fraction) ==
    IF whole.digits + fraction.digits = 0 THEN [thrown |-> TRUE, value |-> 0]
    ELSE [thrown |-> FALSE,
          value |-> sign * (whole.value * One
                            + (fraction.value * One) \div Pow10(fraction.digits))]

\* The digits after a decimal point, when one follows the whole part.
FractionOf(token, sign, whole) ==
    Converted(sign, whole,
              IF whole.next <= Len(token) /\ token[whole.next] = "."
              THEN ReadDigits(token, whole.next + 1, 0, 0)
              ELSE [value |-> 0, digits |-> 0, next |-> whole.next])

\* An optional sign at the character k, then the whole part.
SignedFrom(token, k) ==
    IF k <= Len(token) /\ token[k] = "-"
    THEN FractionOf(token, -1, ReadDigits(token, k + 1, 0, 0))
    ELSE IF k <= Len(token) /\ token[k] = "+"
    THEN FractionOf(token, 1, ReadDigits(token, k + 1, 0, 0))
    ELSE FractionOf(token, 1, ReadDigits(token, k, 0, 0))

\* std::stof(token)
stof(token) == SignedFrom(token, SkipSpace(token, 1))

\* Mutant: a token that fails to parse ends the record.
PushValue_StopAtError(parsed, rest) ==
    IF parsed.thrown THEN <<>> ELSE <<parsed.value>> \o rest

\* try { data.feature.push_back(std::stof(token)); } catch (...) { warning }
PushValue(parsed, rest) ==
    IF parsed.thrown THEN rest ELSE <<parsed.value>> \o rest

\* The inner loop over the tokens k .. of a line: the values pushed.
RECURSIVE FeatureValues(_, _)
FeatureValues(tokens, k) ==
    IF k > Len(tokens) THEN <<>>
    ELSE PushValue(stof(tokens[k]), FeatureValues(tokens, k + 1))

\* The body of the outer loop for the tokens of one line: the records it
\* adds to the output.
LineRecords(tokens, values) ==
    IF tokens = <<>> THEN <<>>
    ELSE IF values = <<>> THEN <<>>
    ELSE <<[filename |-> tokens[1], feature |-> values]>>

\* The outer loop over the lines k .. of the file.
RECURSIVE ReadLines(_, _)
ReadLines(lines, k) ==
    IF k > Len(lines) THEN <<>>
    ELSE IF lines[k] = <<>> THEN ReadLines(lines, k + 1)
    ELSE LineRecords(Tokens(lines[k], 1, <<>>),
                     FeatureValues(Tokens(lines[k], 1, <<>>), 2))
            \o ReadLines(lines, k + 1)

readFeaturesFromCSV(file) ==
    IF ~file.opened THEN [ret |-> -1, features |-> <<>>]
    ELSE [ret |-> 0, features |-> ReadLines(file.lines, 1)]

\* The lines of the files: well-formed records, records with tokens that do
\* not parse at the start, in the middle and at the end, a record of such
\* tokens only, tokens with a numeric prefix, an empty line, a filename
\* alone, a trailing comma and an empty filename.
CsvLines ==
    {<<>>,
     <<"a">>,
     <<"a", ",", "1">>,
     <<"b", ",", "2", ".", "5", ",", "-", "1">>,
     <<"a", ",", "x">>,
     <<"a", ",", "1", ",", "x", ",", "2", ".", "5">>,
     <<"b", ",", "x", ",", "1">>,
     <<"a", ",", "1", ",", ",", "2">>,
     <<"b", ",", "1", "x", ",", "2">>,
     <<"a", ",", " ", "2", ",", ".", "5">>,
     <<"a", ",", ".", ",", "-", ",", "3">>,
     <<"a", ",", "1", ",">>,
     <<",", "1">>,
     <<"b", ",", "-", ".", "5", ",", "5", ".", ",", "+">>}
CsvFiles ==
    {[opened |-> FALSE, lines |-> <<>>]}
    \cup {[opened |-> TRUE, lines |-> l] :
            l \in UNION {[1..n -> CsvLines] : n \in 0..MaxLines}}

CallReadFeaturesFromCSV ==
    /\ pc = "idle"
    /\ \E file \in CsvFiles :
        /\ csvFile' = file
        /\ features' = readFeaturesFromCSV(file).features
        /\ result' = readFeaturesFromCSV(file).ret
    /\ pc' = "returned"
    /\ fn' = "readFeaturesFromCSV"
    /\ UNCHANGED <<ret, ops, distVars, src, feature, pixelReads, histVars, queryVars,
                   batchVars, dst, pathVars, guiVars>>

NextCsv == CallReadFeaturesFromCSV

\* readFeaturesFromCSV, called once on a file drawn from CsvFiles.
SpecCsv == Init /\ [][NextCsv]_vars

\* ------------------------------------------------------------- sobelX3x3, sobelY3x3: calls
\* The images handed to the filters by extractGradientMagnitudeHistogram:
\* 3-channel and not empty.
SobelImages == {img \in Images : img.channels = 3 /\ ~Empty(img)}

SobelReturn(name, img, out) ==
    /\ pc' = "returned"
    /\ fn' = name
    /\ src' = img
    /\ dst' = out
    /\ result' = 0
    /\ UNCHANGED <<ret, ops, distVars, feature, pixelReads, histVars, queryVars,
                   batchVars, csvVars, pathVars, guiVars>>

CallSobelX3x3 ==
    /\ pc = "idle"
    /\ \E img \in SobelImages : SobelReturn("sobelX3x3", img, sobelX3x3(img))

CallSobelY3x3 ==
    /\ pc = "idle"
    /\ \E img \in SobelImages : SobelReturn("sobelY3x3", img, sobelY3x3(img))

NextSobel ==
    \/ CallSobelX3x3
    \/ CallSobelY3x3

\* The two derivative filters, each called once on an image of SobelImages.
SpecSobel == Init /\ [][NextSobel]_vars

\* ------------------------------------------------------------- gui_query: event loop
\* Thumbnails of one browser page.
BROWSER_COLS == 8
\* Match thumbnails of the result panel.
NUM_MATCHES == 6
\* Filenames shown as search results.
MaxShow == 5

\* Characters of the filenames of the image directory: q s n p 1 a.
Letters == <<113, 115, 110, 112, 49, 97>>
ImageName(k) == <<Letters[(k % 6) + 1], Letters[(k \div 6) + 1]>>
\* getImageFilenames: n distinct filenames.
Directory(n) == [k \in 1..n |-> ImageName(k - 1)]
ImageCounts == {0, 1, 9}
\* The feature types (by trackbar index) whose CSV was loaded at startup.
DatabaseSets == {0..5, 0..4}
\* What cv::waitKey returns: -1 without a key press, ESC, Enter, Backspace,
\* and the characters q s n p 1 6.
Keys == {-1, 27, 13, 8, 113, 115, 110, 112, 49, 54}

\* img.find(text) != std::string::npos
Contains(name, text) ==
    \E o \in 0..(Len(name) - Len(text)) : SubSeq(name, o + 1, o + Len(text)) = text

\* The search loop over allImages: the first five filenames holding the text.
RECURSIVE SearchFrom(_, _, _)
SearchFrom(text, k, found) ==
    IF k > Len(allImages) \/ Len(found) >= 5 THEN found
    ELSE SearchFrom(text, k + 1,
                    IF Contains(allImages[k], text)
                    THEN Append(found, allImages[k]) ELSE found)

\* buildDisplay, result panel: the first NUM_MATCHES results other than the
\* target become clickable.  The ranked list is the one of runQuery; here it
\* lists the images in directory order.
RECURSIVE MatchRegions(_, _, _, _)
MatchRegions(images, target, k, shown) ==
    IF k > Len(images) \/ Len(shown) >= NUM_MATCHES THEN shown
    ELSE MatchRegions(images, target, k + 1,
                      IF images[k] = target THEN shown ELSE Append(shown, images[k]))

\* buildDisplay, browser strip: the images bStartIdx .. bStartIdx + 7 that exist.
BrowserRegions(images, page) ==
    [i \in 1..Min(BROWSER_COLS, Len(images) - page * BROWSER_COLS)
        |-> images[page * BROWSER_COLS + i]]

\* buildDisplay, search box: the search results are clickable while the
\* search is active.
SearchRegions(active, found) ==
    IF found # <<>> /\ active THEN SubSeq(found, 1, Min(Len(found), MaxShow)) ELSE <<>>

\* state.regions after buildDisplay, as the filenames of the regions.
Display(images, target, page, active, found) ==
    MatchRegions(images, target, 1, <<>>)
        \o BrowserRegions(images, page) \o SearchRegions(active, found)

\* main up to the first display: the databases and the directory are read,
\* the state is set up and the first pass of the loop head draws the window
\* (or the placeholder, when the first feature type has no database).
GuiStart ==
    /\ pc = "idle"
    /\ \E n \in ImageCounts, dbs \in DatabaseSets :
           /\ fn' = "gui_query"
           /\ allImages' = Directory(n)
           /\ databases' = dbs
           /\ IF n = 0
              THEN /\ pc' = "exited"
                   /\ UNCHANGED <<currentTarget, browserPage, maxPages, clickRegions>>
              ELSE /\ pc' = "gui"
                   /\ currentTarget' = Directory(n)[1]
                   /\ browserPage' = 0
                   /\ maxPages' = (n + BROWSER_COLS - 1) \div BROWSER_COLS
                   /\ clickRegions' = IF 0 \in dbs
                                      THEN Display(Directory(n), Directory(n)[1], 0, FALSE, <<>>)
                                      ELSE <<>>
           /\ clicked' = FALSE /\ featureIdx' = 0 /\ searchActive' = FALSE
           /\ UNCHANGED <<clickedFile, searchText, searchResults, key>>
    /\ UNCHANGED <<ret, ops, distVars, imgVars, histVars, queryVars, batchVars,
                   csvVars, dst, pathVars>>

\* onMouse: a left click inside a clickable region, here the first or the
\* last one of the window.
OnMouse ==
    /\ pc = "gui"
    /\ \E r \in {1, Len(clickRegions)} \cap DOMAIN clickRegions :
           /\ clickedFile' = clickRegions[r]
           /\ clicked' = TRUE
    /\ UNCHANGED <<pc, fn, ret, ops, distVars, imgVars, histVars, queryVars, batchVars,
                   csvVars, dst, pathVars, allImages, databases, currentTarget,
                   browserPage, maxPages, searchActive, searchText, searchResults,
                   featureIdx, clickRegions, key>>

\* The head of the next pass of the loop: when the feature type changed or
\* needsUpdate is set, the window is drawn again, unless the feature type
\* has no database (placeholder, state.regions stay as they are).
Redraw(needsUpdate) ==
    clickRegions' =
        IF (needsUpdate \/ featureIdx' # featureIdx) /\ featureIdx' \in databases
        THEN Display(allImages, currentTarget', browserPage', searchActive', searchResults')
        ELSE clickRegions

\* The search is closed: by a click, by ESC, by Enter on a result.
CloseSearch ==
    /\ searchActive' = FALSE
    /\ searchText' = <<>>
    /\ searchResults' = <<>>

\* Mouse click branch of the loop body.
ClickBranch ==
    /\ currentTarget' = clickedFile
    /\ clicked' = FALSE
    /\ CloseSearch
    /\ UNCHANGED <<pc, browserPage, featureIdx>>
    /\ Redraw(TRUE)

\* Keyboard handling, search mode.
SearchKey(k) ==
    /\ UNCHANGED <<pc, clicked, browserPage, featureIdx>>
    /\ IF k = 27
       THEN /\ CloseSearch
            /\ UNCHANGED currentTarget
            /\ Redraw(TRUE)
       ELSE IF k = 13 \/ k = 10
       THEN IF searchResults # <<>>
            THEN /\ currentTarget' = searchResults[1]
                 /\ CloseSearch
                 /\ Redraw(TRUE)
            ELSE /\ UNCHANGED <<currentTarget, searchActive, searchText, searchResults>>
                 /\ Redraw(FALSE)
       ELSE IF k = 8 \/ k = 127
       THEN IF searchText # <<>>
            THEN /\ searchText' = SubSeq(searchText, 1, Len(searchText) - 1)
                 /\ searchResults' = IF Len(searchText) > 1
                                     THEN SearchFrom(SubSeq(searchText, 1, Len(searchText) - 1),
                                                     1, <<>>)
                                     ELSE <<>>
                 /\ UNCHANGED <<currentTarget, searchActive>>
                 /\ Redraw(TRUE)
            ELSE /\ UNCHANGED <<currentTarget, searchActive, searchText, searchResults>>
                 /\ Redraw(FALSE)
       ELSE IF k >= 32 /\ k <= 126
       THEN /\ searchText' = Append(searchText, k)
            /\ searchResults' = SearchFrom(Append(searchText, k), 1, <<>>)
            /\ UNCHANGED <<currentTarget, searchActive>>
            /\ Redraw(TRUE)
       ELSE /\ UNCHANGED <<currentTarget, searchActive, searchText, searchResults>>
            /\ Redraw(FALSE)

\* The page after 'n' and after 'p'.
NextPage_NoWrap(page, pages) == page + 1
NextPage(page, pages) == (page + 1) % pages

PrevPage(page, pages) == (page - 1 + pages) % pages

\* if (state.searchActive): which keyboard branch a key is handled by.
SearchMode_Never(active) == FALSE
SearchMode(active) == active

\* Keyboard handling, normal mode.
NormalKey(k) ==
    /\ UNCHANGED <<clicked, currentTarget>>
    /\ IF k = 113 \/ k = 27
       THEN /\ pc' = "closed"
            /\ UNCHANGED <<browserPage, featureIdx, searchActive, searchText,
                           searchResults, clickRegions>>
       ELSE IF k = 115
       THEN /\ searchActive' = TRUE
            /\ searchText' = <<>>
            /\ searchResults' = <<>>
            /\ UNCHANGED <<pc, browserPage, featureIdx>>
            /\ Redraw(TRUE)
       ELSE IF k = 110
       THEN /\ browserPage' = NextPage(browserPage, maxPages)
            /\ UNCHANGED <<pc, featureIdx, searchActive, searchText, searchResults>>
            /\ Redraw(TRUE)
       ELSE IF k = 112
       THEN /\ browserPage' = PrevPage(browserPage, maxPages)
            /\ UNCHANGED <<pc, featureIdx, searchActive, searchText, searchResults>>
            /\ Redraw(TRUE)
       ELSE IF k >= 49 /\ k <= 54
       THEN /\ featureIdx' = k - 49
            /\ UNCHANGED <<pc, browserPage, searchActive, searchText, searchResults>>
            /\ Redraw(FALSE)
       ELSE /\ UNCHANGED <<pc, browserPage, featureIdx, searchActive, searchText,
                           searchResults>>
            /\ Redraw(FALSE)

\* One pass of the event loop from cv::waitKey on, with the loop head of the
\* next pass.  The key k is what waitKey returns.  A typed character is taken
\* only while the search text is shorter than MaxText.
LoopPass ==
    /\ pc = "gui"
    /\ \E k \in Keys :
           /\ clicked \/ ~searchActive \/ k < 32 \/ k > 126 \/ Len(searchText) < MaxText
           /\ key' = k
           /\ IF clicked THEN ClickBranch
              ELSE IF SearchMode(searchActive) THEN SearchKey(k)
              ELSE NormalKey(k)
    /\ UNCHANGED <<fn, ret, ops, distVars, imgVars, histVars, queryVars, batchVars,
                   csvVars, dst, pathVars, allImages, databases, maxPages, clickedFile>>

NextGui ==
    \/ GuiStart
    \/ OnMouse
    \/ LoopPass

SpecGui == Init /\ [][NextGui]_vars

\* ------------------------------------------------------------- properties
\* Arithmetic the properties are stated in, written apart from the loops
\* of the metrics.
RECURSIVE SeqSum(_)
SeqSum(v) == IF v = <<>> THEN 0 ELSE Head(v) + SeqSum(Tail(v))
MinVec(a, b) == [i \in 1..Len(a) |-> IF a[i] <= b[i] THEN a[i] ELSE b[i]]
Squares(v) == [i \in 1..Len(v) |-> v[i] * v[i]]
HistInt(a, b) == One - SeqSum(MinVec(a, b))
Segment(v, k, size) == SubSeq(v, (k - 1) * size + 1, k * size)
IsHistogram(v) == (\A i \in 1..Len(v) : v[i] >= 0 /\ v[i] <= One) /\ SeqSum(v) = One
Called(name) == pc = "returned" /\ fn = name
DistanceFns ==
    {"distanceSSD", "distanceHistogramIntersection", "distanceMultiHistogram",
     "distanceTextureColor", "distanceCosine", "distanceCustomBlueScene"}

\* C1: each of the six distance functions returns the error value -1 when
\* its two primary vectors differ in length or are empty, and has then done
\* no arithmetic on the elements.
C1_MismatchOrEmptyIsError ==
    (pc # "idle" /\ fn \in DistanceFns
        /\ (Len(feature1) # Len(feature2) \/ Len(feature1) = 0))
    => (pc = "returned" /\ ret = ERR /\ ops = 0)

C1_Witness ==
    /\ Called("distanceTextureColor")
    /\ Len(feature1) # Len(feature2)
    /\ Len(feature1) = colorSize + textureSize
    /\ ret = ERR /\ ops = 0

\* C2 as stated: for every non-empty v, SSD(v,v), HistInt(v,v) and
\* Cosine(v,v) are 0, except Cosine(v,v) = 1.0 for the zero vector.
C2_SelfDistanceZero ==
    (pc = "returned" /\ feature1 = feature2 /\ Len(feature1) > 0
        /\ fn \in {"distanceSSD", "distanceHistogramIntersection", "distanceCosine"})
    => ret = (IF fn = "distanceCosine" /\ (\A i \in 1..Len(feature1) : feature1[i] = 0)
              THEN One ELSE 0)

\* C2 amended: for every non-empty v, SSD(v,v) = 0; HistInt(v,v) = 1 - sum
\* of the entries of v, which is 0 exactly when they sum to 1; Cosine(v,v)
\* is 0 when the norm of v is at least 1e-10 and 1.0 when it is below.
C2_SelfDistance ==
    (pc = "returned" /\ feature1 = feature2 /\ Len(feature1) > 0)
    => /\ fn = "distanceSSD" => ret = 0
       /\ fn = "distanceHistogramIntersection"
            => (ret = One - SeqSum(feature1) /\ (ret = 0 <=> SeqSum(feature1) = One))
       /\ fn = "distanceCosine"
            => ret = (IF SeqSum(Squares(feature1)) < NormEps * NormEps THEN One ELSE 0)

C2_Witness ==
    /\ Called("distanceCosine")
    /\ feature1 = feature2
    /\ \E i \in 1..Len(feature1) : feature1[i] # 0
    /\ SeqSum(Squares(feature1)) < NormEps * NormEps
    /\ ret = One

\* The same call with the two operands (and the two embeddings) exchanged.
Swapped ==
    CASE fn = "distanceSSD" -> distanceSSD(feature2, feature1)
      [] fn = "distanceHistogramIntersection" ->
            distanceHistogramIntersection(feature2, feature1)
      [] fn = "distanceMultiHistogram" ->
            distanceMultiHistogram(feature2, feature1, numHistograms, weights)
      [] fn = "distanceTextureColor" ->
            distanceTextureColor(feature2, feature1, colorSize, textureSize,
                                 colorWeight, textureWeight)
      [] fn = "distanceCosine" -> distanceCosine(feature2, feature1)
      [] fn = "distanceCustomBlueScene" ->
            distanceCustomBlueScene(feature2, feature1, dnnFeature2, dnnFeature1)

\* C3: every distance metric is symmetric: with the same parameters the
\* call with the operands exchanged returns the same value, the error value
\* included; the custom metric with both pairs exchanged.
C3_Symmetric ==
    (pc = "returned" /\ fn \in DistanceFns) => ret = Swapped.ret

C3_Witness ==
    /\ Called("distanceCustomBlueScene")
    /\ feature1 # feature2 /\ dnnFeature1 # dnnFeature2
    /\ ret > 0
    /\ ret = Swapped.ret

C5_FirstSegmentOnly ==
    (Called("distanceMultiHistogram") /\ numHistograms = 2 /\ weights = <<One, 0>>
        /\ Len(feature1) = Len(feature2) /\ Len(feature1) % 2 = 0)
    => ret = distanceHistogramIntersection(
                Segment(feature1, 1, Len(feature1) \div 2),
                Segment(feature2, 1, Len(feature2) \div 2)).ret

\* C6: distanceMultiHistogram returns the error value when the number of
\* weights differs from the segment count, or when the vector length is not
\* a multiple of the (positive) segment count; no segment distance has then
\* been computed.
C6_ConfigurationErrors ==
    (pc # "idle" /\ fn = "distanceMultiHistogram"
        /\ \/ Len(weights) # numHistograms
           \/ (numHistograms > 0 /\ Len(feature1) % numHistograms # 0))
    => (pc = "returned" /\ ret = ERR /\ sub = 0 /\ ops = 0)

C6_Witness ==
    /\ Called("distanceMultiHistogram")
    /\ Len(feature1) = Len(feature2) /\ Len(feature1) > 0
    /\ Len(weights) = numHistograms /\ numHistograms > 0
    /\ Len(feature1) % numHistograms # 0
    /\ ret = ERR /\ sub = 0

\* The operands pass every shape and configuration check of
\* distanceMultiHistogram and each segment pair has an intersection of at
\* most 1 (as normalised histograms have).
MultiValid ==
    /\ Len(feature1) = Len(feature2) /\ Len(feature1) > 0
    /\ numHistograms > 0 /\ Len(weights) = numHistograms
    /\ Len(feature1) % numHistograms = 0
    /\ \A k \in 1..numHistograms :
          HistInt(Segment(feature1, k, Len(feature1) \div numHistograms),
                  Segment(feature2, k, Len(feature1) \div numHistograms)) >= 0
MultiWeighted ==
    SeqSum([k \in 1..numHistograms |->
        FMul(weights[k],
             HistInt(Segment(feature1, k, Len(feature1) \div numHistograms),
                     Segment(feature2, k, Len(feature1) \div numHistograms)))])
\* The same for distanceTextureColor and its two slices.
TextureColorValid ==
    /\ Len(feature1) = colorSize + textureSize
    /\ Len(feature2) = colorSize + textureSize
    /\ colorSize > 0 /\ textureSize > 0
    /\ HistInt(SubSeq(feature1, 1, colorSize), SubSeq(feature2, 1, colorSize)) >= 0
    /\ HistInt(SubSeq(feature1, colorSize + 1, Len(feature1)),
               SubSeq(feature2, colorSize + 1, Len(feature2))) >= 0
TextureColorWeighted ==
    FMul(colorWeight,
         HistInt(SubSeq(feature1, 1, colorSize), SubSeq(feature2, 1, colorSize)))
    + FMul(textureWeight,
           HistInt(SubSeq(feature1, colorSize + 1, Len(feature1)),
                   SubSeq(feature2, colorSize + 1, Len(feature2))))

\* C7: weights that do not sum to 1 are not rejected: on otherwise valid
\* operands distanceMultiHistogram and distanceTextureColor return, whatever
\* the weight sum, the weighted sum taken with the weights as supplied, and
\* not the error value.
C7_WeightSumNotChecked ==
    /\ (pc # "idle" /\ fn = "distanceMultiHistogram" /\ MultiValid)
            => (pc = "returned" /\ ret = MultiWeighted /\ ret # ERR)
    /\ (pc # "idle" /\ fn = "distanceTextureColor" /\ TextureColorValid)
            => (pc = "returned" /\ ret = TextureColorWeighted /\ ret # ERR)

C7_Witness ==
    /\ Called("distanceMultiHistogram") /\ MultiValid
    /\ numHistograms = 2
    /\ SeqSum(weights) = 2 * One
    /\ ret = 2 * One

\* C8: on equal-length non-empty vectors distanceCosine returns exactly 1.0,
\* without dividing, whenever the norm of either operand is below 1e-10 (the
\* zero vector included); it does not return the error value.
C8_NearZeroNorm ==
    (pc # "idle" /\ fn = "distanceCosine"
        /\ Len(feature1) = Len(feature2) /\ Len(feature1) > 0
        /\ \/ SeqSum(Squares(feature1)) < NormEps * NormEps
           \/ SeqSum(Squares(feature2)) < NormEps * NormEps)
    => (pc = "returned" /\ ret = One /\ ret # ERR /\ ops = 2 * Len(feature1))

C8_Witness ==
    /\ Called("distanceCosine")
    /\ SeqSum(Squares(feature1)) >= NormEps * NormEps
    /\ SeqSum(Squares(feature2)) > 0
    /\ SeqSum(Squares(feature2)) < NormEps * NormEps
    /\ ret = One

\* C9: for a 3-channel image of at least 7 rows and 7 columns
\* extractBaselineFeature succeeds with 147 values, value 3*(7*i+j)+k being
\* channel k of the pixel at row (rows div 2)-3+i, column (cols div 2)-3+j.
C9_CentrePatch ==
    (Called("extractBaselineFeature")
        /\ src.channels = 3 /\ src.rows >= 7 /\ src.cols >= 7)
    => /\ result = 0
       /\ Len(feature) = 147
       /\ \A i \in 0..6, j \in 0..6, k \in 0..2 :
            feature[3 * (7 * i + j) + k + 1]
                = One * src.data[(src.rows \div 2) - 3 + i][(src.cols \div 2) - 3 + j][k + 1]

C9_Witness ==
    /\ Called("extractBaselineFeature")
    /\ src.channels = 3 /\ src.rows = 8 /\ src.cols = 7
    /\ result = 0
    /\ feature[1] # feature[2] /\ feature[1] # feature[4] /\ feature[1] # feature[22]

\* C10: extractBaselineFeature fails on an empty image, on an image of fewer
\* than 7 rows or 7 columns and on an image that is not 3-channel; on the
\* all-zero 7x7 3-channel image it succeeds with 147 zeros.
C10_BaselineErrors ==
    Called("extractBaselineFeature")
    => /\ (src.rows = 0 \/ src.cols = 0 \/ src.rows < 7 \/ src.cols < 7
              \/ src.channels # 3) => result = -1
       /\ (src.rows = 7 /\ src.cols = 7 /\ src.channels = 3
              /\ \A r \in 0..6, c \in 0..6, k \in 1..3 : src.data[r][c][k] = 0)
            => (result = 0 /\ feature = [i \in 1..147 |-> 0])

C10_Witness ==
    /\ Called("extractBaselineFeature")
    /\ src.rows = 3 /\ src.cols = 3 /\ src.channels = 3
    /\ result = -1

\* ------------------------------------------------------------- histogram extractors: properties
\* The pixel positions of an image, and the channels of a pixel by name
\* (stored order is B, G, R).
Pixels(img) == (0..(img.rows - 1)) \X (0..(img.cols - 1))
ChanR(img, p) == img.data[p[1]][p[2]][3]
ChanG(img, p) == img.data[p[1]][p[2]][2]
ChanB(img, p) == img.data[p[1]][p[2]][1]
ChanSum(img, p) == ChanR(img, p) + ChanG(img, p) + ChanB(img, p)
\* min(floor(bins * value / sum), bins - 1), in exact arithmetic
ExactBin(value, sum, bins) ==
    IF (bins * value) \div sum < bins - 1 THEN (bins * value) \div sum ELSE bins - 1
CountedPixels(img) == {p \in Pixels(img) : ChanSum(img, p) >= 1}
PixelsOfBin(img, bins, i) ==
    {p \in CountedPixels(img) :
        ExactBin(ChanR(img, p), ChanSum(img, p), bins) * bins
            + ExactBin(ChanG(img, p), ChanSum(img, p), bins) = i}
Colour(img) == img.rows >= 1 /\ img.cols >= 1 /\ img.channels = 3
Uniform(img) == \A p, q \in Pixels(img) : img.data[p[1]][p[2]] = img.data[q[1]][q[2]]
NonZeroBins(v) == {i \in 1..Len(v) : v[i] # 0}
\* The chromaticity histogram of the rows y .. y+height-1 of the image.
RowsHistogram(img, y, height, bins) ==
    extractRGChromaticityHistogram(Region(img, y, height), bins).feature

\* C11: with B bins per channel a pixel is skipped iff R+G+B < 1; any other
\* pixel increments exactly the bin r_bin*B + g_bin with
\* r_bin = min(floor(B*R/(R+G+B)), B-1) and g_bin = min(floor(B*G/(R+G+B)), B-1):
\* the count of every bin is the number of counted pixels the formula sends to it.
C11_BinOfPixel ==
    (Called("extractRGChromaticityHistogram") /\ result = 0)
    => /\ totalPixels = Cardinality(CountedPixels(src))
       /\ \A i \in 1..(binsPerChannel * binsPerChannel) :
            histogram[i] = Cardinality(PixelsOfBin(src, binsPerChannel, i - 1))

C14_TwoHalves ==
    (Called("extractMultiHistogram") /\ Colour(src) /\ binsPerChannel >= 1)
    => /\ result = 0
       /\ Len(feature) = 2 * binsPerChannel * binsPerChannel
       /\ feature = RowsHistogram(src, 0, src.rows \div 2, binsPerChannel)
                    \o RowsHistogram(src, src.rows \div 2, src.rows - src.rows \div 2,
                                     binsPerChannel)

\* C15: on any non-empty 3-channel image (any row count >= 1)
\* extractCustomBlueSceneFeature yields exactly 209 values: the blue-dominance
\* fraction in [0,1], then the 16-bin texture histogram, then three 64-bin
\* band histograms.
C15_CustomLayout ==
    (Called("extractCustomBlueSceneFeature") /\ Colour(src))
    => /\ result = 0
       /\ Len(feature) = 209
       /\ feature[1] >= 0 /\ feature[1] <= One
       /\ SubSeq(feature, 2, 17) = extractGradientMagnitudeHistogram(src, 16).feature
       /\ \A i \in 18..209 : feature[i] >= 0 /\ feature[i] <= One

\* The three bands of the claim, for an image of the given number of rows.
Band(rows, k) ==
    LET h == rows \div 3
    IN  IF k = 1 THEN [y |-> 0, height |-> h]
        ELSE IF k = 2 THEN [y |-> h, height |-> h]
        ELSE [y |-> 2 * h, height |-> rows - 2 * h]
RowsOf(rect) == rect.y..(rect.y + rect.height - 1)

\* C16: the custom extractor cuts the image into the bands [0,h), [h,2h) and
\* [2h,rows) with h = rows div 3: they are pairwise disjoint and every row
\* lies in exactly one, the first two have height h and the last one takes
\* the remainder; the three band histograms follow the first 17 values in
\* top, middle, bottom order.
C16_Bands ==
    (Called("extractCustomBlueSceneFeature") /\ Colour(src))
    => /\ \A k \in 1..Len(regions) : regions[k] = Band(src.rows, k)
       /\ result = 0 =>
            /\ Len(regions) = 3
            /\ \A r \in 0..(src.rows - 1) :
                    Cardinality({k \in 1..3 : r \in RowsOf(regions[k])}) = 1
            /\ regions[1].height = src.rows \div 3
            /\ regions[2].height = src.rows \div 3
            /\ regions[3].height = (src.rows \div 3) + (src.rows % 3)
            /\ SubSeq(feature, 18, 209)
                 = RowsHistogram(src, regions[1].y, regions[1].height, 8)
                   \o RowsHistogram(src, regions[2].y, regions[2].height, 8)
                   \o RowsHistogram(src, regions[3].y, regions[3].height, 8)

C16_Witness ==
    /\ Called("extractCustomBlueSceneFeature") /\ result = 0
    /\ src.rows = 5
    /\ regions[3].height = 3
    /\ SubSeq(feature, 18, 81) # SubSeq(feature, 82, 145)
    /\ SubSeq(feature, 82, 145) # SubSeq(feature, 146, 209)
    /\ SubSeq(feature, 18, 81) # SubSeq(feature, 146, 209)

\* C17: distanceTextureColor takes its slice boundaries from colorSize and
\* textureSize alone: it returns the error value unless both vectors have
\* exactly colorSize + textureSize values, and otherwise returns
\* wc*HistInt(a[0:colorSize], b[0:colorSize]) + wt*HistInt(a[colorSize:], b[colorSize:]).
C17_ExplicitSlices ==
    Called("distanceTextureColor")
    => IF Len(feature1) = colorSize + textureSize /\ Len(feature2) = colorSize + textureSize
       THEN ret = FMul(colorWeight,
                       distanceHistogramIntersection(
                           SubSeq(feature1, 1, colorSize),
                           SubSeq(feature2, 1, colorSize)).ret)
                  + FMul(textureWeight,
                         distanceHistogramIntersection(
                             SubSeq(feature1, colorSize + 1, Len(feature1)),
                             SubSeq(feature2, colorSize + 1, Len(feature2))).ret)
       ELSE ret = ERR

\* C18: on two 209-value custom vectors and two 512-value embeddings
\* distanceCustomBlueScene returns 0.4*|a[0]-b[0]| + 0.2*HistInt(a[1:17], b[1:17])
\* + 0.2*distanceMultiHistogram(a[17:209], b[17:209], 3, {0.33,0.34,0.33})
\* + 0.2*distanceCosine(dnn_a, dnn_b); any other length gives the error value.
C18_CustomFormula ==
    Called("distanceCustomBlueScene")
    => IF Len(feature1) = 209 /\ Len(feature2) = 209
            /\ Len(dnnFeature1) = 512 /\ Len(dnnFeature2) = 512
       THEN ret = FMul((40 * One) \div 100, Abs(feature1[1] - feature2[1]))
                  + FMul((20 * One) \div 100,
                         distanceHistogramIntersection(SubSeq(feature1, 2, 17),
                                                       SubSeq(feature2, 2, 17)).ret)
                  + FMul((20 * One) \div 100,
                         distanceMultiHistogram(
                             SubSeq(feature1, 18, 209), SubSeq(feature2, 18, 209), 3,
                             <<(33 * One) \div 100, (34 * One) \div 100,
                               (33 * One) \div 100>>).ret)
                  + FMul((20 * One) \div 100, distanceCosine(dnnFeature1, dnnFeature2).ret)
       ELSE ret = ERR

\* ------------------------------------------------------------- ranking: properties
\* The distance call the ranking loop makes for the database record k, and
\* whether the record has an embedding (custom mode).
DistOf(k) ==
    ComputeDist(featureType, targetFeature, database[k].feature, targetDNNFeature,
                Find(dnnDatabase, database[k].filename, 1).feature)
HasEmbedding(k) ==
    featureType # "custom" \/ Find(dnnDatabase, database[k].filename, 1).found
PairsOf(k) == {j \in 1..Len(results) : results[j].filename = database[k].filename}
\* The records of the database carry different identifiers.
DistinctNames ==
    \A j, k \in 1..Len(database) : j # k => database[j].filename # database[k].filename

\* C19: the ranking loop visits every database entry whatever happened to
\* earlier ones and produces exactly one (identifier, distance) pair for each
\* entry whose distance call did not return an error, none for an entry
\* whose call returned the error value or, in custom mode, that has no
\* embedding record; the final list is in nondecreasing distance order.
C19_RankingLoop ==
    (pc = "done" /\ fn = "main_query" /\ DistinctNames)
    => /\ idx = Len(database)
       /\ \A k \in 1..Len(database) :
            IF HasEmbedding(k) /\ DistOf(k) # ERR
            THEN /\ Cardinality(PairsOf(k)) = 1
                 /\ \A j \in PairsOf(k) : results[j].distance = DistOf(k)
            ELSE PairsOf(k) = {}
       /\ \A j \in 1..(Len(results) - 1) : results[j].distance <= results[j + 1].distance

\* C20: the ranking sort is stable: two entries of equal distance stand in
\* the ranked list in the order they have in the database.
C20_StableSort ==
    (pc = "done" /\ fn = "main_query" /\ DistinctNames)
    => \A i, j \in 1..Len(results) :
            (i < j /\ results[i].distance = results[j].distance)
            => results[i].filename < results[j].filename

\* ------------------------------------------------------------- batch extraction: properties
\* The files 1 .. n of the directory that load and extract.
Succeeded(n) ==
    {k \in 1..n : /\ ~Empty(filenames[k])
                  /\ BatchExtracted[featureType][filenames[k]].result = 0}

\* C21: in the batch loop a file whose load or extraction fails is counted
\* as failed and not inserted, and the later files are still processed: after
\* i files the database holds exactly the files among them that succeeded,
\* in directory order and with their extracted feature, its size is
\* successCount, and successCount + failCount = i; the loop ends only with
\* i the number of files found.
C21_BatchLoop ==
    fn = "main_extract_features"
    => /\ Len(allFeatures) = successCount
       /\ successCount + failCount = fileIdx
       /\ {allFeatures[j].filename : j \in 1..Len(allFeatures)} = Succeeded(fileIdx)
       /\ \A j \in 1..(Len(allFeatures) - 1) :
            allFeatures[j].filename < allFeatures[j + 1].filename
       /\ \A j \in 1..Len(allFeatures) :
            allFeatures[j].feature
                = BatchExtracted[featureType][filenames[allFeatures[j].filename]].feature
       /\ (pc \in {"done", "exited"} => fileIdx = Len(filenames))

\* A finished run in which a file failed and a later file was inserted.
C21_Witness ==
    /\ fn = "main_extract_features" /\ pc = "done"
    /\ failCount >= 1
    /\ \E j \in 1..Len(allFeatures) : \E k \in 1..(allFeatures[j].filename - 1) :
            k \notin Succeeded(Len(filenames))

\* ------------------------------------------------------------- CSV reading: properties
\* The tokens of the line k of the file read, and the places of those of
\* its value tokens that parse.
TokensOf(k) == Tokens(csvFile.lines[k], 1, <<>>)
Parsing(k) == {i \in 2..Len(TokensOf(k)) : ~stof(TokensOf(k)[i]).thrown}
\* The lines that leave a record, and the place of such a line's record.
KeptLines == {k \in 1..Len(csvFile.lines) : Parsing(k) # {}}
RecordOf(k) == features[Cardinality({j \in KeptLines : j <= k})]

\* C22: readFeaturesFromCSV skips a token that fails to parse and keeps
\* loading: it returns 0, every line with at least one value token that
\* parses leaves one record, the records are in line order, a record holds
\* the values of exactly the tokens of its line that parse, in their order,
\* and only the lines without such a token leave no record.
C22_SkipsUnparsedToken ==
    (pc = "returned" /\ fn = "readFeaturesFromCSV" /\ csvFile.opened)
    => /\ result = 0
       /\ Len(features) = Cardinality(KeptLines)
       /\ \A k \in KeptLines :
            /\ RecordOf(k).filename = TokensOf(k)[1]
            /\ Len(RecordOf(k).feature) = Cardinality(Parsing(k))
            /\ \A i \in Parsing(k) :
                RecordOf(k).feature[Cardinality({j \in Parsing(k) : j <= i})]
                    = stof(TokensOf(k)[i]).value

\* A file read in which a record kept a value before and a value after a
\* token that failed to parse, and a later line left its record too.
C22_Witness ==
    /\ pc = "returned" /\ fn = "readFeaturesFromCSV" /\ csvFile.opened
    /\ \E k \in KeptLines :
        /\ \E i \in Parsing(k), j \in Parsing(k) :
            \E t \in 2..Len(TokensOf(k)) : i < t /\ t < j /\ t \notin Parsing(k)
        /\ \E later \in KeptLines : later > k

\* ------------------------------------------------------------- derivative filters: properties
\* C23: the derivative filters hold the image borders constant: in the
\* output of sobelX3x3 the first and the last column repeat the nearest
\* interior column, and in the output of sobelY3x3 the first and the last
\* row repeat the nearest interior row, wherever an interior one exists.
C23_BordersReplicated ==
    /\ (pc = "returned" /\ fn = "sobelX3x3" /\ src.cols >= 3)
        => \A i \in 0..(src.rows - 1) :
                /\ dst[i][0] = dst[i][1]
                /\ dst[i][src.cols - 1] = dst[i][src.cols - 2]
    /\ (pc = "returned" /\ fn = "sobelY3x3" /\ src.rows >= 3)
        => \A j \in 0..(src.cols - 1) :
                /\ dst[0][j] = dst[1][j]
                /\ dst[src.rows - 1][j] = dst[src.rows - 2][j]

\* ------------------------------------------------------------- dnn mode: properties
\* The records of the database whose identifier is the string name.
Matching(name) == {k \in 1..Len(database) : <<database[k].filename>> = name}
IsSeparator(c) == c = Slash \/ c = Backslash

\* C24: in dnn mode the target's filename is the part of the target path
\* after its last separator (the whole path when it has none), the query
\* vector is the feature of the first database record with that identifier,
\* and when no record has it the program exits before any distance is
\* computed and before any result is listed.
C24_DnnTargetFromDatabase ==
    (fn = "main_query" /\ featureType = "dnn")
    => /\ \E n \in 0..Len(targetImagePath) :
            /\ targetFilename = SubSeq(targetImagePath, n + 1, Len(targetImagePath))
            /\ n = 0 \/ IsSeparator(targetImagePath[n])
            /\ \A i \in 1..Len(targetFilename) : ~IsSeparator(targetFilename[i])
       /\ IF Matching(targetFilename) = {}
          THEN pc = "exited" /\ idx = 0 /\ results = <<>> /\ ret = 0
          ELSE /\ pc # "exited"
               /\ \E k \in Matching(targetFilename) :
                    /\ \A j \in Matching(targetFilename) : k <= j
                    /\ targetFeature = database[k].feature

\* A dnn query ranked for a target path with directories, found in a
\* database where a later record with the same identifier has another feature.
C24_Witness ==
    /\ fn = "main_query" /\ featureType = "dnn" /\ pc = "done"
    /\ Len(targetImagePath) > Len(targetFilename)
    /\ \E j, k \in Matching(targetFilename) :
            j < k /\ database[j].feature # database[k].feature

\* ------------------------------------------------------------- GUI: properties
\* A step of the event loop that reached the keyboard handling: no click was
\* pending when cv::waitKey returned, and the step is not a mouse callback.
KeyboardPass == pc = "gui" /\ ~clicked /\ ~clicked'

\* C25: in the GUI, after any sequence of key presses and clicks,
\* 0 <= browserPage < maxPages, where maxPages is the number of images
\* divided by 8 and rounded up, and at least 1; 'n' on the last page goes to
\* page 0, 'p' on page 0 goes to the last page, and no key pressed while the
\* search is active changes browserPage.
C25_BrowserPage ==
    [][/\ pc' \in {"gui", "closed"}
          => /\ 0 <= browserPage' /\ browserPage' < maxPages'
             /\ maxPages' >= 1
             /\ maxPages' * 8 >= Len(allImages')
             /\ (maxPages' - 1) * 8 < Len(allImages')
       /\ (KeyboardPass /\ ~searchActive /\ key' = 110 /\ browserPage = maxPages - 1)
          => browserPage' = 0
       /\ (KeyboardPass /\ ~searchActive /\ key' = 112 /\ browserPage = 0)
          => browserPage' = maxPages - 1
       /\ (KeyboardPass /\ searchActive) => browserPage' = browserPage]_vars

\* 'p' was the last key, read outside the search, and the browser of nine
\* images shows the last of its two pages.
C25_Witness ==
    /\ pc = "gui" /\ key = 112 /\ ~searchActive /\ ~clicked
    /\ maxPages = 2 /\ browserPage = 1
    /\ Len(allImages) = 9

\* C26: in the GUI, 'q' and ESC quit only when the search is inactive; in
\* search mode 'q' is appended to the search text and ESC cancels the search
\* (search off, text and results cleared) without quitting; search mode is
\* left only by ESC, by Enter with at least one result, or by a click on a
\* clickable region.
C26_QuitAndSearch ==
    [][/\ (pc = "gui" /\ pc' = "closed")
          => ~searchActive /\ ~clicked /\ key' \in {113, 27}
       /\ (KeyboardPass /\ ~searchActive /\ key' \in {113, 27}) => pc' = "closed"
       /\ (KeyboardPass /\ searchActive /\ key' = 113)
          => /\ pc' = "gui" /\ searchActive'
             /\ searchText' = Append(searchText, 113)
       /\ (KeyboardPass /\ searchActive /\ key' = 27)
          => /\ pc' = "gui" /\ ~searchActive'
             /\ searchText' = <<>> /\ searchResults' = <<>>
       /\ (searchActive /\ ~searchActive')
          => /\ pc' = "gui"
             /\ \/ clicked /\ ~clicked' /\ currentTarget' = clickedFile
                \/ KeyboardPass /\ key' = 27
                \/ /\ KeyboardPass /\ key' \in {13, 10}
                   /\ searchResults # <<>> /\ currentTarget' = searchResults[1]
       /\ (pc = "gui" /\ clicked /\ ~clicked') => ~searchActive']_vars

\* 'q' was typed into the empty search box: the search is still active, the
\* text is "q" and the window is still open.
C26_Witness ==
    /\ pc = "gui" /\ searchActive /\ ~clicked
    /\ key = 113 /\ searchText = <<113>> /\ searchResults # <<>>

\* ------------------------------------------------------------- numHistograms <= 0
\* C27: distanceMultiHistogram returns the error value for every call with
\* numHistograms <= 0, numHistograms = 0 with an empty weight list included:
\* the call returns, and the division and the modulus of the vector length by
\* numHistograms are never evaluated with numHistograms = 0.
C27_NoHistograms ==
    (fn = "distanceMultiHistogram" /\ numHistograms <= 0)
    => pc = "returned" /\ ret = ERR /\ ops = 0 /\ sub = 0

\* ------------------------------------------------------------- negative distances
\* Every entry of the vector lies in [0,1].
InUnit(f) == \A i \in 1..Len(f) : 0 <= f[i] /\ f[i] <= One

\* The call passed the shape and configuration checks of its function.
PassedChecks ==
    /\ Len(feature1) = Len(feature2) /\ Len(feature1) > 0
    /\ fn = "distanceMultiHistogram"
       => /\ numHistograms > 0 /\ Len(weights) = numHistograms
          /\ Len(feature1) % numHistograms = 0
    /\ fn = "distanceTextureColor"
       => /\ Len(feature1) = colorSize + textureSize
          /\ colorSize > 0 /\ textureSize > 0

\* C28: a distance function returns a negative value only when a shape or
\* configuration check fails: for equal-length non-empty vectors with entries
\* in [0,1] that pass validation the result of every metric is >= 0, so no
\* computed distance is taken for an error, by a caller or by a composite
\* metric.
C28_NegativeOnlyOnFailure ==
    (/\ pc = "returned"
     /\ fn \in {"distanceSSD", "distanceHistogramIntersection",
                "distanceMultiHistogram", "distanceTextureColor"}
     /\ InUnit(feature1) /\ InUnit(feature2)
     /\ PassedChecks)
    => ret >= 0

\* ------------------------------------------------------------- centre patch: positions
\* C29: for every image of at least 7 rows and 7 columns every pixel position
\* read by extractBaselineFeature lies inside the image: the rows read are
\* (rows div 2)-3 .. (rows div 2)+3 with 0 <= (rows div 2)-3 and
\* (rows div 2)+3 <= rows-1, likewise the columns, for even and odd sizes.
C29_ReadsInsideImage ==
    (Called("extractBaselineFeature") /\ src.rows >= 7 /\ src.cols >= 7)
    => /\ \A p \in pixelReads :
            /\ 0 <= p[1] /\ p[1] <= src.rows - 1
            /\ 0 <= p[2] /\ p[2] <= src.cols - 1
       /\ src.channels = 3
          => pixelReads = {<<(src.rows \div 2) - 3 + i, (src.cols \div 2) - 3 + j>> :
                              i \in 0..6, j \in 0..6}

\* The patch of an image with an even number of rows and an odd number of
\* columns was read: 49 positions, the rows 1 .. 7 and the columns 0 .. 6.
C29_Witness ==
    /\ Called("extractBaselineFeature")
    /\ src.rows = 8 /\ src.cols = 7 /\ src.channels = 3
    /\ result = 0
    /\ Cardinality(pixelReads) = 49
    /\ <<1, 0>> \in pixelReads /\ <<7, 6>> \in pixelReads /\ <<0, 0>> \notin pixelReads

\* ------------------------------------------------------------- failure leaves no feature
\* C30: whenever an extractor (extractBaselineFeature,
\* extractRGChromaticityHistogram, extractMultiHistogram,
\* extractTextureColorFeature, extractCustomBlueSceneFeature) returns failure,
\* the output feature vector is empty: no partially built feature is left in it.
C30_FailureLeavesEmpty ==
    (/\ pc = "returned"
     /\ fn \in {"extractBaselineFeature", "extractRGChromaticityHistogram",
                "extractMultiHistogram", "extractTextureColorFeature",
                "extractCustomBlueSceneFeature"}
     /\ result # 0)
    => feature = <<>>

====
